---- MODULE Spec2Model ----
(***************************************************************************)
(* RiftboundOCR: the card-name matcher (src/src/ocr/matcher.py) and the    *)
(* section consolidation of the two-stage parser (src/src/ocr/parser.py).  *)
(*                                                                         *)
(* Text is modelled as a sequence of one-character strings, so that        *)
(* splitting, stripping, comma insertion and the edit-distance ratio are   *)
(* computed on the characters.  Latin letters stand for CJK characters.    *)
(* A Python value that may be None is a sequence of length 0 (None) or 1.  *)
(***************************************************************************)
EXTENDS Integers, Sequences, FiniteSets, TLC

VARIABLES
    phase,               \* matcher: "loading" (inside __init__) or "ready"
    rows,                \* matcher: number of CSV rows read so far
    mappings,            \* CardMatcher.mappings: dict full name -> card record(s)
    base_name_mappings,  \* CardMatcher.base_name_mappings: dict base name -> full names
    chinese_names,       \* CardMatcher.chinese_names: list of distinct full names
    call,                \* the last call on the matcher, with its arguments and result
    pc,                  \* parser: the stage parse_with_two_stage has reached
    sections,            \* parser: the detected sections, in detection order
    duplicates,          \* parser: dedup_result['duplicates']
    total_boxes,         \* parser: card boxes found so far
    cards_in_section,    \* parser: the cards of the section being processed
    section_groups,      \* parser: (section_type, cards) of every processed section
    heap,                \* parser: the card dicts; the lists hold indices into it
    result_cards,        \* parser: result['cards'], section -> list of cards
    dedup,               \* deduplicate_cards on its own: its argument and its results
    config,              \* concurrent invocations: the metadata regions config file
    files,               \* concurrent invocations: the files of the working directory
    invocations,         \* concurrent invocations: each one's position and result
    settings,            \* routes.py: the settings the service runs with
    db_exists,           \* routes.py: whether the card mapping file exists
    matcher,             \* routes.py: the module-level matcher ("unset", "loaded", "None")
    request,             \* routes.py: the batch request being served
    status_code,         \* routes.py: the status of the response (0: none yet)
    events,              \* routes.py: the events the response has streamed
    endpoint_pc,         \* routes.py: where the handler of the request is
    idx,                 \* routes.py: the files the loops have gone through
    successful,          \* routes.py: successful / successful_count
    failed,              \* routes.py: failed / failed_count
    file_data_list,      \* routes.py: process-batch-fast, the files queued for the workers
    parsed,              \* routes.py: the images parse_with_two_stage was called on
    detection,           \* detect_card_boxes_in_section on its own: argument and result
    classification,      \* classify_section_type on its own: arguments and result
    extraction,          \* extract_name_with_fallback for one card box: calls made and result
    engines,             \* parser.py: the module-level OCR engines and the threads getting them
    temps,               \* the temporary files of one operation on an image and its progress
    futures              \* routes.py: the images of the chunk process-batch-fast has submitted

mvars == <<phase, rows, mappings, base_name_mappings, chinese_names, call>>

pvars == <<pc, sections, duplicates, total_boxes, cards_in_section, section_groups, heap, result_cards>>

avars == <<config, files, invocations>>

bvars == <<settings, db_exists, matcher, request, status_code, events, endpoint_pc, idx,
           successful, failed, file_data_list, parsed, futures>>

fvars == <<detection, classification, extraction, engines, temps>>

vars == <<mvars, pvars, dedup, avars, bvars, fvars>>

----------------------------------------------------------------------------
(* Bounds and input pools *)

MaxRows == 2

\* card_number column values; <<>> is the empty string of a row with no number
CardNumbers == { <<>>, <<"0","1">>, <<"0","2">> }

\* name_cn column values
DbNames ==
    { <<"a", ",", " ", "b">>,
      <<"a", ",", " ", "b", "c">>,
      <<"a", "b", ",", " ", "c">>,
      <<"a">>,
      <<"a", "b", "c", ",", " ", "d">>,
      <<"a", ",", "b", ",", " ">> }

\* names handed to match
QueryNames ==
    { <<"a">>,
      <<"a", "b">>,
      <<"a", "b", "c">>,
      <<"a", "b", "c", "d">>,
      <<"a", ",", "b">>,
      <<"a", ",", "b", "c">>,
      <<"a", ",", " ", "b">> }

DefaultThreshold == 85

Thresholds == { 50, DefaultThreshold }

----------------------------------------------------------------------------
(* Python values *)

None == <<>>
Some(x) == <<x>>

\* an insertion-ordered dict: its keys in insertion order, and the values
EmptyDict == [keys |-> <<>>, val |-> <<>>]

Range(s) == { s[i] : i \in 1..Len(s) }

IndexOf(s, x) == CHOOSE i \in 1..Len(s) : s[i] = x /\ \A j \in 1..(i-1) : s[j] # x

DictHas(d, k) == k \in Range(d.keys)

DictGet(d, k) == d.val[IndexOf(d.keys, k)]

DictSet(d, k, v) ==
    IF DictHas(d, k)
    THEN [d EXCEPT !.val[IndexOf(d.keys, k)] = v]
    ELSE [keys |-> Append(d.keys, k), val |-> Append(d.val, v)]

----------------------------------------------------------------------------
(* str operations *)

\* name_cn.split(',')[0]: the text before the first comma
RECURSIVE BeforeComma(_)
BeforeComma(s) ==
    IF s = <<>> \/ Head(s) = "," THEN <<>>
    ELSE <<Head(s)>> \o BeforeComma(Tail(s))

RECURSIVE LStrip(_)
LStrip(s) == IF s # <<>> /\ Head(s) = " " THEN LStrip(Tail(s)) ELSE s

RECURSIVE RStrip(_)
RStrip(s) ==
    IF s # <<>> /\ s[Len(s)] = " " THEN RStrip(SubSeq(s, 1, Len(s) - 1)) ELSE s

\* str.strip()
Strip(s) == RStrip(LStrip(s))

\* name_cn.split(',')[0].strip()
BaseName(name_cn) == Strip(BeforeComma(name_cn))

\* chinese_name[:split_pos] + ', ' + chinese_name[split_pos:]
CommaVariant(name, split_pos) ==
    SubSeq(name, 1, split_pos) \o <<",", " ">> \o SubSeq(name, split_pos + 1, Len(name))

\* code points of the characters that occur in card numbers
Ord(c) == CASE c = "0" -> 48 [] c = "1" -> 49 [] c = "2" -> 50 [] c = "Z" -> 90

\* s < t for Python str
RECURSIVE StrLess(_, _)
StrLess(s, t) ==
    IF t = <<>> THEN FALSE
    ELSE IF s = <<>> THEN TRUE
    ELSE IF Head(s) = Head(t) THEN StrLess(Tail(s), Tail(t))
    ELSE Ord(Head(s)) < Ord(Head(t))

----------------------------------------------------------------------------
(* list.sort(key=lambda x: x.get('card_number', 'ZZZ')) *)

\* every record is built with a card_number entry, so the default is unused
SortKey(x) == IF "card_number" \in DOMAIN x THEN x.card_number ELSE <<"Z", "Z", "Z">>

\* x placed behind every element whose key is not greater (the sort is stable)
RECURSIVE InsertByKey(_, _)
InsertByKey(sorted, x) ==
    IF sorted = <<>> THEN <<x>>
    ELSE IF StrLess(SortKey(x), SortKey(Head(sorted)))
         THEN <<x>> \o sorted
         ELSE <<Head(sorted)>> \o InsertByKey(Tail(sorted), x)

RECURSIVE SortByCardNumber(_)
SortByCardNumber(s) ==
    IF s = <<>> THEN <<>>
    ELSE InsertByKey(SortByCardNumber(SubSeq(s, 1, Len(s) - 1)), s[Len(s)])

----------------------------------------------------------------------------
(* rapidfuzz: fuzz.ratio and process.extractOne *)

\* length of the longest common subsequence
RECURSIVE LCS(_, _)
LCS(s, t) ==
    IF s = <<>> \/ t = <<>> THEN 0
    ELSE IF Head(s) = Head(t) THEN 1 + LCS(Tail(s), Tail(t))
    ELSE LET a == LCS(Tail(s), t)
             b == LCS(s, Tail(t))
         IN IF a >= b THEN a ELSE b

\* fuzz.ratio(s, t) = 100 * 2*LCS / (len(s) + len(t)), kept as the fraction num/den
Ratio(s, t) ==
    IF Len(s) + Len(t) = 0 THEN [num |-> 100, den |-> 1]
    ELSE [num |-> 200 * LCS(s, t), den |-> Len(s) + Len(t)]

ScoreGreater(a, b) == a.num * b.den > b.num * a.den

ScoreAtLeast(a, n) == a.num >= n * a.den

\* index of the best choice among choices[i..], given the best index so far (0: none);
\* a later choice replaces the best only with a strictly greater score
RECURSIVE BestChoice(_, _, _, _, _)
BestChoice(query, choices, score_cutoff, i, best) ==
    IF i > Len(choices) THEN best
    ELSE LET score == Ratio(query, choices[i])
             better == /\ ScoreAtLeast(score, score_cutoff)
                       /\ best = 0 \/ ScoreGreater(score, Ratio(query, choices[best]))
         IN BestChoice(query, choices, score_cutoff, i + 1, IF better THEN i ELSE best)

\* extractOne without its score_cutoff: the best choice, however low its score
ExtractOneNoCutoff(query, choices, score_cutoff) ==
    LET best == BestChoice(query, choices, 0, 1, 0)
    IN IF best = 0 THEN None
       ELSE Some([choice |-> choices[best], score |-> Ratio(query, choices[best])])

\* process.extractOne(query, choices, scorer=fuzz.ratio, score_cutoff=score_cutoff)
ExtractOne(query, choices, score_cutoff) ==
    LET best == BestChoice(query, choices, score_cutoff, 1, 0)
    IN IF best = 0 THEN None
       ELSE Some([choice |-> choices[best], score |-> Ratio(query, choices[best])])

----------------------------------------------------------------------------
(* CardMatcher.match *)

ExactScore == [num |-> 100, den |-> 1]

\* {**best_match, 'name_cn': ..., 'matched_to': ..., 'match_score': ..., 'match_type': ...}
\* (row stands for the columns of the CSV row the record was read from)
MatchDict(best_match, chinese_name, matched_to, match_score, match_type) ==
    [row          |-> best_match.row,
     card_number  |-> best_match.card_number,
     name_cn      |-> chinese_name,
     matched_to   |-> matched_to,
     match_score  |-> match_score,
     match_type   |-> match_type]

\* the records of every full name of the list, in list order
RECURSIVE AllMatches(_, _)
AllMatches(m, full_names) ==
    IF full_names = <<>> THEN <<>>
    ELSE DictGet(m, Head(full_names)) \o AllMatches(m, Tail(full_names))

\* Strategy 1: exact full name; a record list of several rows is sorted in place
ExactFull(m, chinese_name) ==
    IF DictHas(m, chinese_name)
    THEN LET exact_matches == SortByCardNumber(DictGet(m, chinese_name))
         IN [ret |-> Some(MatchDict(exact_matches[1], chinese_name, None,
                                    ExactScore, "exact_full")),
             mappings |-> DictSet(m, chinese_name, exact_matches)]
    ELSE [ret |-> None, mappings |-> m]

\* Strategy 2 reporting the last full name of the group as matched_to
BaseNameMatchLast(m, b, chinese_name) ==
    IF DictHas(b, chinese_name)
    THEN LET full_names == DictGet(b, chinese_name)
             all_matches == SortByCardNumber(AllMatches(m, full_names))
         IN [ret |-> Some(MatchDict(all_matches[1], chinese_name,
                                    Some(full_names[Len(full_names)]),
                                    [num |-> 100, den |-> 1], "base_name")),
             mappings |-> m]
    ELSE [ret |-> None, mappings |-> m]

\* Strategy 2: the name is a base name; the records of all its full names are
\* collected in a new list, which is sorted
BaseNameMatch(m, b, chinese_name) ==
    IF DictHas(b, chinese_name)
    THEN LET full_names == DictGet(b, chinese_name)
             all_matches == SortByCardNumber(AllMatches(m, full_names))
         IN [ret |-> Some(MatchDict(all_matches[1], chinese_name, Some(full_names[1]),
                                    ExactScore, "base_name")),
             mappings |-> m]
    ELSE [ret |-> None, mappings |-> m]

SplitPositions == <<1, 2, 3>>

\* the split positions tried from the last to the first
RECURSIVE LastSplit(_, _, _)
LastSplit(m, chinese_name, i) ==
    IF i > 3 THEN 0
    ELSE LET later == LastSplit(m, chinese_name, i + 1)
         IN IF later # 0 THEN later
            ELSE IF i < Len(chinese_name) /\ DictHas(m, CommaVariant(chinese_name, i))
                 THEN i ELSE 0

\* the first position of SplitPositions[i..] below len(chinese_name) whose comma
\* variant is a key of mappings; 0 when there is none
RECURSIVE FirstSplit(_, _, _)
FirstSplit(m, chinese_name, i) ==
    IF i > Len(SplitPositions) THEN 0
    ELSE LET split_pos == SplitPositions[i]
         IN IF /\ split_pos < Len(chinese_name)
               /\ DictHas(m, CommaVariant(chinese_name, split_pos))
            THEN split_pos
            ELSE FirstSplit(m, chinese_name, i + 1)

\* Strategy 3: comma insertion
CommaInserted(m, chinese_name) ==
    LET split_pos == IF Len(chinese_name) >= 3 THEN FirstSplit(m, chinese_name, 1) ELSE 0
    IN IF split_pos # 0
       THEN LET comma_variant == CommaVariant(chinese_name, split_pos)
                exact_matches == SortByCardNumber(DictGet(m, comma_variant))
            IN [ret |-> Some(MatchDict(exact_matches[1], chinese_name, Some(comma_variant),
                                       ExactScore, "comma_inserted")),
                mappings |-> DictSet(m, comma_variant, exact_matches)]
       ELSE [ret |-> None, mappings |-> m]

\* Strategy 4: fuzzy match on the base names
FuzzyBaseName(m, b, chinese_name, threshold) ==
    LET result == ExtractOne(chinese_name, b.keys, threshold)
    IN IF result # None
       THEN LET full_names == DictGet(b, result[1].choice)
                all_matches == SortByCardNumber(AllMatches(m, full_names))
            IN [ret |-> Some(MatchDict(all_matches[1], chinese_name, Some(full_names[1]),
                                       result[1].score, "fuzzy_base_name")),
                mappings |-> m]
       ELSE [ret |-> None, mappings |-> m]

\* Strategy 5: fuzzy match on the full names
FuzzyFull(m, c, chinese_name, threshold) ==
    LET result == ExtractOne(chinese_name, c, threshold)
    IN IF result # None
       THEN LET matched_name == result[1].choice
                matches == SortByCardNumber(DictGet(m, matched_name))
            IN [ret |-> Some(MatchDict(matches[1], chinese_name, Some(matched_name),
                                       result[1].score, "fuzzy_full")),
                mappings |-> DictSet(m, matched_name, matches)]
       ELSE [ret |-> None, mappings |-> m]

\* match with the base-name strategy tried before the exact one
MatchBaseNameFirst(m, b, c, chinese_name, threshold) ==
    LET s1 == ExactFull(m, chinese_name)
        s2 == BaseNameMatch(m, b, chinese_name)
        s3 == CommaInserted(m, chinese_name)
        s4 == FuzzyBaseName(m, b, chinese_name, threshold)
        s5 == FuzzyFull(m, c, chinese_name, threshold)
    IN IF s2.ret # None THEN s2
       ELSE IF s1.ret # None THEN s1
       ELSE IF s3.ret # None THEN s3
       ELSE IF s4.ret # None THEN s4
       ELSE IF s5.ret # None THEN s5
       ELSE [ret |-> None, mappings |-> m]

\* match(chinese_name, threshold) on the database (m, b, c): what it returns and
\* mappings as the call leaves it
Match(m, b, c, chinese_name, threshold) ==
    LET s1 == ExactFull(m, chinese_name)
        s2 == BaseNameMatch(m, b, chinese_name)
        s3 == CommaInserted(m, chinese_name)
        s4 == FuzzyBaseName(m, b, chinese_name, threshold)
        s5 == FuzzyFull(m, c, chinese_name, threshold)
    IN IF s1.ret # None THEN s1
       ELSE IF s2.ret # None THEN s2
       ELSE IF s3.ret # None THEN s3
       ELSE IF s4.ret # None THEN s4
       ELSE IF s5.ret # None THEN s5
       ELSE [ret |-> None, mappings |-> m]

----------------------------------------------------------------------------
(* CardMatcher.__init__ *)

NoCall == [op |-> "none"]

\* no image is being parsed
ParserIdle ==
    /\ pc = "idle"
    /\ sections = <<>>
    /\ duplicates = <<>>
    /\ total_boxes = 0
    /\ cards_in_section = <<>>
    /\ section_groups = <<>>
    /\ heap = <<>>
    /\ result_cards = <<>>

NoDedup == [stage |-> "none"]

\* no invocation runs beside the one modelled
NoInvocations ==
    /\ config = <<>>
    /\ files = <<>>
    /\ invocations = <<>>

\* neither function is applied on its own
NoFunctionCall ==
    /\ detection = <<>>
    /\ classification = <<>>
    /\ extraction = <<>>
    /\ engines = <<>>
    /\ temps = <<>>

\* the service is not part of the run
NoService ==
    /\ settings = <<>>
    /\ db_exists = TRUE
    /\ matcher = "unset"
    /\ request = <<>>
    /\ status_code = 0
    /\ events = <<>>
    /\ endpoint_pc = "idle"
    /\ idx = 0
    /\ successful = 0
    /\ failed = 0
    /\ file_data_list = <<>>
    /\ parsed = 0
    /\ futures = <<>>

\* the matcher as __init__ starts reading the file
MatcherStart ==
    /\ phase = "loading"
    /\ rows = 0
    /\ mappings = EmptyDict
    /\ base_name_mappings = EmptyDict
    /\ chinese_names = <<>>
    /\ call = NoCall

MatcherInit == MatcherStart /\ ParserIdle /\ dedup = NoDedup /\ NoInvocations /\ NoService
               /\ NoFunctionCall

\* one iteration of the loop over the CSV rows
LoadRow(name_cn, card_number) ==
    /\ phase = "loading"
    /\ rows < MaxRows
    /\ LET card_data == [row |-> rows + 1, card_number |-> card_number]
           base_name == BaseName(name_cn)
       IN /\ mappings' =
                 IF DictHas(mappings, name_cn)
                 THEN DictSet(mappings, name_cn, Append(DictGet(mappings, name_cn), card_data))
                 ELSE DictSet(mappings, name_cn, <<card_data>>)
          /\ chinese_names' =
                 IF name_cn \notin Range(chinese_names)
                 THEN Append(chinese_names, name_cn)
                 ELSE chinese_names
          /\ base_name_mappings' =
                 LET d == IF DictHas(base_name_mappings, base_name)
                          THEN base_name_mappings
                          ELSE DictSet(base_name_mappings, base_name, <<>>)
                 IN DictSet(d, base_name, Append(DictGet(d, base_name), name_cn))
    /\ rows' = rows + 1
    /\ UNCHANGED <<phase, call, pvars, dedup, avars, bvars, fvars>>

\* the end of the file is reached and the constructor returns
FinishLoad ==
    /\ phase = "loading"
    /\ phase' = "ready"
    /\ UNCHANGED <<rows, mappings, base_name_mappings, chinese_names, call, pvars, dedup, avars, bvars, fvars>>

\* a call matcher.match(chinese_name, threshold)
DoMatch(chinese_name, threshold) ==
    /\ phase = "ready"
    /\ call = NoCall
    /\ LET r == Match(mappings, base_name_mappings, chinese_names, chinese_name, threshold)
       IN /\ mappings' = r.mappings
          /\ call' = [op |-> "match", chinese_name |-> chinese_name,
                      threshold |-> threshold, before |-> mappings, ret |-> r.ret]
    /\ UNCHANGED <<phase, rows, base_name_mappings, chinese_names, pvars, dedup, avars, bvars, fvars>>

----------------------------------------------------------------------------
(* CardMatcher.match_decklist *)

\* the keys of parsed_decklist['cards'], in the order parse_with_two_stage creates them
SectionOrder == <<"legend", "main_deck", "battlefields", "runes", "side_deck">>

Sections == Range(SectionOrder)

EmptyCards == [section \in Sections |-> <<>>]

\* for section, cards in parsed_decklist['cards'].items(): for card in cards
RECURSIVE CardsInOrder(_, _)
CardsInOrder(cards, i) ==
    IF i > Len(SectionOrder) THEN <<>>
    ELSE [j \in 1..Len(cards[SectionOrder[i]]) |->
              [section |-> SectionOrder[i], card |-> cards[SectionOrder[i]][j]]]
         \o CardsInOrder(cards, i + 1)

\* the matched entry with the quantity dropped to a single copy
MatchedEntryOneCopy(card, match_result) ==
    [name_cn        |-> card.name_cn,
     row            |-> match_result.row,
     card_number    |-> match_result.card_number,
     quantity       |-> 1,
     match_score    |-> match_result.match_score,
     match_type     |-> match_result.match_type,
     ocr_confidence |-> card.confidence]

\* the entry appended to matched[section]
MatchedEntry(card, match_result) ==
    [name_cn        |-> card.name_cn,
     row            |-> match_result.row,
     card_number    |-> match_result.card_number,
     quantity       |-> card.quantity,
     match_score    |-> match_result.match_score,
     match_type     |-> match_result.match_type,
     ocr_confidence |-> card.confidence]

\* the entry appended to matched['unmatched']
UnmatchedEntry(card, section) ==
    [name_cn |-> card.name_cn, section |-> section, quantity |-> card.quantity]

\* the value of a singleton set; binding a result through it has it computed once
The(S) == CHOOSE x \in S : TRUE

\* the loop over the cards: every card is matched with the default threshold, on
\* mappings as the calls before it left it
RECURSIVE MatchCards(_, _, _, _, _)
MatchCards(items, m, b, c, out) ==
    IF items = <<>> THEN [mappings |-> m, out |-> out]
    ELSE LET section == Head(items).section
             card == Head(items).card
         IN The({ IF r.ret # None
                  THEN MatchCards(Tail(items), r.mappings, b, c,
                           [out EXCEPT !.cards[section] =
                                           Append(@, MatchedEntry(card, r.ret[1]))])
                  ELSE MatchCards(Tail(items), r.mappings, b, c,
                           [out EXCEPT !.unmatched = Append(@, UnmatchedEntry(card, section))])
                  : r \in {Match(m, b, c, card.name_cn, DefaultThreshold)} })

RECURSIVE SumLen(_, _)
SumLen(cards, i) ==
    IF i > Len(SectionOrder) THEN 0
    ELSE Len(cards[SectionOrder[i]]) + SumLen(cards, i + 1)

\* stats whose total leaves the unmatched cards out
StatsMatchedOnly(out) ==
    LET total_cards == SumLen(out.cards, 1)
    IN [total_cards   |-> total_cards,
        matched_cards |-> total_cards,
        accuracy      |-> IF total_cards > 0
                          THEN [num |-> total_cards * 100, den |-> total_cards]
                          ELSE [num |-> 0, den |-> 1]]

\* matched['stats']; accuracy is the fraction num/den
Stats(out) ==
    LET total_cards == SumLen(out.cards, 1)
        matched_cards == total_cards
        unmatched_count == Len(out.unmatched)
        total_with_unmatched == total_cards + unmatched_count
    IN [total_cards   |-> total_with_unmatched,
        matched_cards |-> matched_cards,
        accuracy      |-> IF total_with_unmatched > 0
                          THEN [num |-> matched_cards * 100, den |-> total_with_unmatched]
                          ELSE [num |-> 0, den |-> 1]]

\* match_decklist(parsed_decklist) on the database (m, b, c): the dict it returns
\* (the section lists under cards) and mappings as the call leaves it
MatchDecklist(m, b, c, parsed_decklist) ==
    The({ The({ [mappings |-> done.mappings,
                 matched  |-> [legend_name_en |-> IF legend.ret # None
                                                  THEN Some(legend.ret[1].row) ELSE None,
                               cards          |-> done.out.cards,
                               unmatched      |-> done.out.unmatched,
                               stats          |-> Stats(done.out)]]
                : done \in {MatchCards(CardsInOrder(parsed_decklist.cards, 1),
                                       legend.mappings, b, c,
                                       [cards |-> EmptyCards, unmatched |-> <<>>])} })
          : legend \in {IF parsed_decklist.legend_name # None
                        THEN Match(m, b, c, parsed_decklist.legend_name[1], DefaultThreshold)
                        ELSE [ret |-> None, mappings |-> m]} })

\* a call matcher.match_decklist(parsed_decklist)
DoMatchDecklist(parsed_decklist) ==
    /\ phase = "ready"
    /\ call = NoCall
    /\ LET r == MatchDecklist(mappings, base_name_mappings, chinese_names, parsed_decklist)
       IN /\ mappings' = r.mappings
          /\ call' = [op |-> "match_decklist", parsed_decklist |-> parsed_decklist,
                      before |-> mappings, matched |-> r.matched]
    /\ UNCHANGED <<phase, rows, base_name_mappings, chinese_names, pvars, dedup, avars, bvars, fvars>>

\* the caller has taken the result; the matcher is ready for the next call
Return ==
    /\ call # NoCall
    /\ call' = NoCall
    /\ UNCHANGED <<phase, rows, mappings, base_name_mappings, chinese_names, pvars, dedup, avars, bvars, fvars>>

MatchNext ==
    \/ \E name_cn \in DbNames, card_number \in CardNumbers : LoadRow(name_cn, card_number)
    \/ FinishLoad
    \/ \E chinese_name \in QueryNames, threshold \in Thresholds : DoMatch(chinese_name, threshold)
    \/ Return

SpecMatch == MatcherInit /\ [][MatchNext]_vars

----------------------------------------------------------------------------
(* Decklists handed to match_decklist *)

MaxDeckCards == 2

\* rows of the database the decklists are matched against
DeckRows ==
    { [name_cn |-> <<"a", ",", " ", "b">>, card_number |-> <<"0", "2">>],
      [name_cn |-> <<"a", ",", " ", "b">>, card_number |-> <<"0", "1">>],
      [name_cn |-> <<"a", "b", ",", " ", "c">>, card_number |-> <<"0", "1">>] }

DeckLegendNames == { None, Some(<<"a">>) }

\* the cards of the parsed decklists, as ocr_card_box builds them
DeckCard ==
    { [name_cn |-> <<"a", ",", " ", "b">>, quantity |-> 3, confidence |-> 0],
      [name_cn |-> <<"a", "b", "c">>, quantity |-> 1, confidence |-> 0],
      [name_cn |-> <<"a", "b", "c">>, quantity |-> 3, confidence |-> 0] }

\* the cards of a decklist, each with the section it is listed under
DeckItems == UNION { [1..n -> [section : Sections, card : DeckCard]] : n \in 0..MaxDeckCards }

\* the cards of items that are listed under section, in order
RECURSIVE CardsOf(_, _)
CardsOf(items, section) ==
    IF items = <<>> THEN <<>>
    ELSE IF Head(items).section = section
         THEN <<Head(items).card>> \o CardsOf(Tail(items), section)
         ELSE CardsOf(Tail(items), section)

ParsedDecklists ==
    { [legend_name |-> legend_name, cards |-> [section \in Sections |-> CardsOf(items, section)]] :
          legend_name \in DeckLegendNames, items \in DeckItems }

DeckNext ==
    \/ \E row \in DeckRows : LoadRow(row.name_cn, row.card_number)
    \/ FinishLoad
    \/ \E parsed_decklist \in ParsedDecklists : DoMatchDecklist(parsed_decklist)
    \/ Return

SpecDeck == MatcherInit /\ [][DeckNext]_vars

----------------------------------------------------------------------------
(* Properties of match (checked under SpecMatch) *)

IsMatchCall == call.op = "match"

KeysBefore == Range(call.before.keys)

BaseKeys == Range(base_name_mappings.keys)

ExactApplies == call.chinese_name \in KeysBefore

BaseApplies == call.chinese_name \in BaseKeys

\* the split positions the code tries: 1, 2, 3, each only below the length of the name
TriedSplits ==
    { p \in {1, 2, 3} : /\ p < Len(call.chinese_name)
                        /\ CommaVariant(call.chinese_name, p) \in KeysBefore }

CommaApplies == Len(call.chinese_name) >= 3 /\ TriedSplits # {}

FuzzyBaseApplies ==
    \E k \in BaseKeys : ScoreAtLeast(Ratio(call.chinese_name, k), call.threshold)

FuzzyFullApplies ==
    \E k \in Range(chinese_names) : ScoreAtLeast(Ratio(call.chinese_name, k), call.threshold)

FirstApplicable ==
    IF ExactApplies THEN "exact_full"
    ELSE IF BaseApplies THEN "base_name"
    ELSE IF CommaApplies THEN "comma_inserted"
    ELSE IF FuzzyBaseApplies THEN "fuzzy_base_name"
    ELSE IF FuzzyFullApplies THEN "fuzzy_full"
    ELSE "none"

ReturnedType == IF call.ret = None THEN "none" ELSE call.ret[1].match_type

SameScore(a, b) == a.num * b.den = b.num * a.den

Min(S) == CHOOSE x \in S : \A y \in S : x <= y

RECURSIVE WithBase(_, _)
WithBase(names, base) ==
    IF names = <<>> THEN <<>>
    ELSE IF BaseName(Head(names)) = base
         THEN <<Head(names)>> \o WithBase(Tail(names), base)
         ELSE WithBase(Tail(names), base)

HasTaggedName ==
    \E k \in KeysBefore : "," \in Range(k) /\ BaseName(k) = call.chinese_name

IsBaseNameResult ==
    /\ ReturnedType = "base_name"
    /\ SameScore(call.ret[1].match_score, ExactScore)
    /\ call.ret[1].matched_to = Some(WithBase(chinese_names, call.chinese_name)[1])

ClaimedSplits ==
    { p \in {1, 2, 3} : /\ p <= Len(call.chinese_name)
                        /\ CommaVariant(call.chinese_name, p) \in KeysBefore }

IsCommaResult(p) ==
    /\ ReturnedType = "comma_inserted"
    /\ SameScore(call.ret[1].match_score, ExactScore)
    /\ call.ret[1].matched_to = Some(CommaVariant(call.chinese_name, p))

MatchedFullNames ==
    IF ReturnedType = "exact_full" THEN {call.chinese_name}
    ELSE IF ReturnedType \in {"comma_inserted", "fuzzy_full"} THEN {call.ret[1].matched_to[1]}
    ELSE { k \in KeysBefore : BaseName(k) = BaseName(call.ret[1].matched_to[1]) }

CandidateRecords ==
    UNION { Range(DictGet(call.before, k)) : k \in MatchedFullNames }

\* card number x sorts before y when a missing (empty) number sorts last
NumberBefore(x, y) ==
    IF x = <<>> THEN FALSE
    ELSE IF y = <<>> THEN TRUE
    ELSE StrLess(x, y)

\* C8: the record match returns has the lexicographically smallest card number among
\* the records of the matched full name (for base_name and fuzzy_base_name: of all full
\* names of the matched base), a missing card number sorting after every present one.
C8_SmallestCardNumber ==
    (IsMatchCall /\ call.ret # None) =>
        \A r \in CandidateRecords : ~NumberBefore(r.card_number, call.ret[1].card_number)

\* the candidates a fuzzy result of the given type is chosen among
FuzzyCandidates(type) ==
    IF type = "fuzzy_base_name" THEN BaseKeys ELSE Range(chinese_names)

----------------------------------------------------------------------------
(* Properties of match_decklist (checked under SpecDeck) *)

IsDecklistCall == call.op = "match_decklist"

\* C1: the stats of every decklist satisfy matched_cards + len(unmatched) = total_cards
\* and accuracy = matched_cards / total_cards * 100, with accuracy 0 when there is no card.
C1_StatsAccounting ==
    IsDecklistCall =>
        LET stats == call.matched.stats
        IN /\ stats.matched_cards + Len(call.matched.unmatched) = stats.total_cards
           /\ IF stats.total_cards = 0
              THEN stats.accuracy.num = 0
              ELSE stats.accuracy.num * stats.total_cards
                       = stats.matched_cards * 100 * stats.accuracy.den

\* a decklist with a matched and an unmatched card
C1_Witness ==
    /\ IsDecklistCall
    /\ call.matched.stats.matched_cards >= 1
    /\ Len(call.matched.unmatched) >= 1

\* whether match finds the name in the database as it was before the call
Matches(name_cn) ==
    Match(call.before, base_name_mappings, chinese_names, name_cn, DefaultThreshold).ret # None

\* the name and quantity of the cards of the list that match
RECURSIVE MatchingCards(_)
MatchingCards(cards) ==
    IF cards = <<>> THEN <<>>
    ELSE IF Matches(Head(cards).name_cn)
         THEN <<[name_cn |-> Head(cards).name_cn, quantity |-> Head(cards).quantity]>>
              \o MatchingCards(Tail(cards))
         ELSE MatchingCards(Tail(cards))

\* name, section and quantity of the cards of the list that do not match
RECURSIVE OtherCards(_, _)
OtherCards(cards, section) ==
    IF cards = <<>> THEN <<>>
    ELSE IF ~Matches(Head(cards).name_cn)
         THEN <<[name_cn |-> Head(cards).name_cn, section |-> section,
                 quantity |-> Head(cards).quantity]>> \o OtherCards(Tail(cards), section)
         ELSE OtherCards(Tail(cards), section)

RECURSIVE AllOtherCards(_, _)
AllOtherCards(cards, i) ==
    IF i > Len(SectionOrder) THEN <<>>
    ELSE OtherCards(cards[SectionOrder[i]], SectionOrder[i]) \o AllOtherCards(cards, i + 1)

NameAndQuantity(entries) ==
    [i \in 1..Len(entries) |-> [name_cn |-> entries[i].name_cn, quantity |-> entries[i].quantity]]

----------------------------------------------------------------------------
(* parser.py: section classification and duplicate sections *)

MaxSections == 2

MaxBoxes == 4

\* the header keywords; one string stands for one CJK character
LegendKey == <<"chuan", "qi">>
MainDeckKey == <<"zhu", "pai">>
BattlefieldsKey == <<"zhan", "chang">>
RunesKey == <<"fu", "wen">>
SideDeckKey == <<"bei", "pai">>

\* sub in text, for Python str
Contains(text, sub) ==
    \E i \in 0..(Len(text) - Len(sub)) : SubSeq(text, i + 1, i + Len(sub)) = sub

\* sorted(all_areas, reverse=True)
RECURSIVE InsertDescending(_, _)
InsertDescending(sorted, x) ==
    IF sorted = <<>> THEN <<x>>
    ELSE IF x > Head(sorted) THEN <<x>> \o sorted
    ELSE <<Head(sorted)>> \o InsertDescending(Tail(sorted), x)

RECURSIVE SortedDescending(_)
SortedDescending(s) ==
    IF s = <<>> THEN <<>>
    ELSE InsertDescending(SortedDescending(Tail(s)), Head(s))

\* classify_section_type: normalized is the header text read (empty when the header
\* is unreadable or reading it raised), section_area is w * h of the bounding box,
\* all_areas are the contour areas of the sections; "IndexError" when
\* sorted_areas[1] or sorted_areas[2] is read and does not exist
ClassifySectionType(normalized, section_area, index, all_areas, total_sections) ==
    LET sorted_areas == SortedDescending(all_areas)
    IN IF normalized # <<>> /\ Contains(normalized, LegendKey) THEN "legend_main"
       ELSE IF normalized # <<>> /\ Contains(normalized, BattlefieldsKey) THEN "battlefields"
       ELSE IF normalized # <<>> /\ Contains(normalized, RunesKey) THEN "runes"
       ELSE IF normalized # <<>> /\ Contains(normalized, SideDeckKey) THEN "side_deck"
       ELSE IF normalized # <<>> /\ Contains(normalized, MainDeckKey) THEN "legend_main"
       ELSE IF section_area = sorted_areas[1] THEN "legend_main"
       ELSE IF Len(sorted_areas) < 2 THEN "IndexError"
       ELSE IF section_area = sorted_areas[2] THEN "battlefields"
       ELSE IF Len(sorted_areas) < 3 THEN "IndexError"
       ELSE IF section_area = sorted_areas[3] THEN "runes"
       ELSE IF index = total_sections THEN "side_deck"
       ELSE "runes"

\* what is read in the header strip of a section
HeaderTexts ==
    { <<>>,
      <<"chuan", "qi", "pai">>,
      <<"zhu", "pai", "zu">>,
      <<"zhan", "chang", "pai">>,
      <<"fu", "wen", "pai">>,
      <<"bei", "pai">> }

\* a detected section: the contour area and the area w * h of its bounding box,
\* which is greater than the contour area
DetectedSections ==
    { d \in [header : HeaderTexts, area : {2, 4}, box_area : {4, 6}] : d.area < d.box_area }

\* detect_duplicate_sections: the first section of every type, the types in the
\* order of their first occurrence, and one report for every type found twice or more
\* the sections kept when a later section of a type replaces the one kept before
RECURSIVE UniqueSectionsKeepLast(_, _)
UniqueSectionsKeepLast(secs, kept) ==
    IF secs = <<>> THEN kept
    ELSE IF \E i \in 1..Len(kept) : kept[i].type = Head(secs).type
         THEN UniqueSectionsKeepLast(
                  Tail(secs),
                  [i \in 1..Len(kept) |-> IF kept[i].type = Head(secs).type
                                          THEN Head(secs) ELSE kept[i]])
         ELSE UniqueSectionsKeepLast(Tail(secs), Append(kept, Head(secs)))

RECURSIVE UniqueSections(_, _)
UniqueSections(secs, kept) ==
    IF secs = <<>> THEN kept
    ELSE IF \E i \in 1..Len(kept) : kept[i].type = Head(secs).type
         THEN UniqueSections(Tail(secs), kept)
         ELSE UniqueSections(Tail(secs), Append(kept, Head(secs)))

\* the indices (from 0) of the sections of the given type
RECURSIVE Occurrences(_, _, _)
Occurrences(secs, stype, i) ==
    IF i > Len(secs) THEN <<>>
    ELSE IF secs[i].type = stype
         THEN <<i - 1>> \o Occurrences(secs, stype, i + 1)
         ELSE Occurrences(secs, stype, i + 1)

RECURSIVE DuplicateReports(_, _)
DuplicateReports(secs, unique) ==
    IF unique = <<>> THEN <<>>
    ELSE LET occurrences == Occurrences(secs, Head(unique).type, 1)
         IN IF Len(occurrences) > 1
            THEN <<[type |-> Head(unique).type,
                    count |-> Len(occurrences),
                    kept_index |-> occurrences[1],
                    removed_indices |-> Tail(occurrences)]>>
                 \o DuplicateReports(secs, Tail(unique))
            ELSE DuplicateReports(secs, Tail(unique))

DetectDuplicateSections(secs) ==
    LET unique == UniqueSections(secs, <<>>)
    IN [unique_sections |-> unique, duplicates |-> DuplicateReports(secs, unique)]

----------------------------------------------------------------------------
(* parser.py: ocr_card_box and the consolidation of parse_with_two_stage *)

Digits == {"0", "1", "2", "3", "4", "5", "6", "7", "8", "9"}

DigitValue(c) ==
    CASE c = "0" -> 0 [] c = "1" -> 1 [] c = "2" -> 2 [] c = "3" -> 3 [] c = "4" -> 4
      [] c = "5" -> 5 [] c = "6" -> 6 [] c = "7" -> 7 [] c = "8" -> 8 [] c = "9" -> 9

\* re.search(r'\d+', text).group(): the first run of digits of a text that has a digit
RECURSIVE DigitRun(_)
DigitRun(text) ==
    IF text = <<>> \/ Head(text) \notin Digits THEN <<>>
    ELSE <<Head(text)>> \o DigitRun(Tail(text))

RECURSIVE FirstDigitRun(_)
FirstDigitRun(text) ==
    IF Head(text) \in Digits THEN DigitRun(text) ELSE FirstDigitRun(Tail(text))

\* int(digits)
RECURSIVE ToInt(_)
ToInt(digits) ==
    IF digits = <<>> THEN 0
    ELSE 10 * ToInt(SubSeq(digits, 1, Len(digits) - 1)) + DigitValue(digits[Len(digits)])

\* the quantity taken from the text without the test of its range
ParseQuantityAnyValue(qty_text) ==
    IF qty_text # <<>> /\ (\E i \in 1..Len(qty_text) : qty_text[i] \in Digits)
    THEN ToInt(FirstDigitRun(qty_text))
    ELSE 1

\* the quantity ocr_card_box derives from the text read in the quantity region
ParseQuantity(qty_text) ==
    IF qty_text # <<>> /\ (\E i \in 1..Len(qty_text) : qty_text[i] \in Digits)
    THEN LET qty_val == ToInt(FirstDigitRun(qty_text))
         IN IF 1 <= qty_val /\ qty_val <= 12 THEN qty_val ELSE 1
    ELSE 1

\* what ocr_card_box reads in a box: the name (None when every attempt failed) and
\* the text of the quantity region; the name of the last reading contains the rune keyword
BoxReadings ==
    { [card_name |-> Some(<<"a", "b">>), qty_text |-> <<>>],
      [card_name |-> Some(<<"a", "b">>), qty_text |-> <<"x", "2">>],
      [card_name |-> Some(<<"c", "d">>), qty_text |-> <<"x", "3">>],
      [card_name |-> Some(<<"e", "f">>), qty_text |-> <<"1", "3">>],
      [card_name |-> Some(<<"fu", "wen", "a">>), qty_text |-> <<"x", "2">>],
      [card_name |-> None, qty_text |-> <<>>] }

Max(a, b) == IF a >= b THEN a ELSE b

\* the position in ordered of the card with the given name; 0 when there is none
FirstWithName(h, ordered, name) ==
    IF \E i \in 1..Len(ordered) : h[ordered[i]].name_cn = name
    THEN CHOOSE i \in 1..Len(ordered) : h[ordered[i]].name_cn = name
    ELSE 0

\* deduplicate_cards keeping the later card of a name instead of updating the first
RECURSIVE DeduplicateKeepLast(_, _, _)
DeduplicateKeepLast(h, cards, ordered) ==
    IF cards = <<>> THEN [heap |-> h, ordered |-> ordered]
    ELSE LET card == Head(cards)
             name == h[card].name_cn
             seen == FirstWithName(h, ordered, name)
         IN IF name = <<>> THEN DeduplicateKeepLast(h, Tail(cards), ordered)
            ELSE IF seen = 0 THEN DeduplicateKeepLast(h, Tail(cards), Append(ordered, card))
            ELSE DeduplicateKeepLast(h, Tail(cards), [ordered EXCEPT ![seen] = card])

\* deduplicate_cards appending every card, also one whose name was seen
RECURSIVE DeduplicateKeepAll(_, _, _)
DeduplicateKeepAll(h, cards, ordered) ==
    IF cards = <<>> THEN [heap |-> h, ordered |-> ordered]
    ELSE LET card == Head(cards)
             name == h[card].name_cn
             seen == FirstWithName(h, ordered, name)
         IN IF name = <<>> THEN DeduplicateKeepAll(h, Tail(cards), ordered)
            ELSE IF seen = 0 THEN DeduplicateKeepAll(h, Tail(cards), Append(ordered, card))
            ELSE DeduplicateKeepAll(
                     [h EXCEPT ![ordered[seen]].quantity =
                                   h[ordered[seen]].quantity + h[card].quantity],
                     Tail(cards), Append(ordered, card))

\* deduplicate_cards(cards): the loop over the rest of cards, with the kept cards so
\* far in ordered; the quantity of a kept card is updated in the card dict itself
RECURSIVE DeduplicateCards(_, _, _)
DeduplicateCards(h, cards, ordered) ==
    IF cards = <<>> THEN [heap |-> h, ordered |-> ordered]
    ELSE LET card == Head(cards)
             name == h[card].name_cn
             seen == FirstWithName(h, ordered, name)
         IN IF name = <<>> THEN DeduplicateCards(h, Tail(cards), ordered)
            ELSE IF seen = 0 THEN DeduplicateCards(h, Tail(cards), Append(ordered, card))
            ELSE DeduplicateCards(
                     [h EXCEPT ![ordered[seen]].quantity =
                                   Max(h[ordered[seen]].quantity, h[card].quantity)],
                     Tail(cards), ordered)

\* the cards of the groups of the given type, in order
RECURSIVE CardsOfType(_, _)
CardsOfType(groups, stype) ==
    IF groups = <<>> THEN <<>>
    ELSE IF Head(groups).stype = stype
         THEN Head(groups).cards \o CardsOfType(Tail(groups), stype)
         ELSE CardsOfType(Tail(groups), stype)

\* the card lists of the groups of the given type, each without its first card
RECURSIVE GroupsWithoutFirstCard(_, _)
GroupsWithoutFirstCard(groups, stype) ==
    IF groups = <<>> THEN <<>>
    ELSE IF Head(groups).stype = stype
         THEN <<IF Head(groups).cards = <<>> THEN <<>> ELSE Tail(Head(groups).cards)>>
                  \o GroupsWithoutFirstCard(Tail(groups), stype)
         ELSE GroupsWithoutFirstCard(Tail(groups), stype)

\* the card lists of the groups of the given type
RECURSIVE GroupsOfType(_, _)
GroupsOfType(groups, stype) ==
    IF groups = <<>> THEN <<>>
    ELSE IF Head(groups).stype = stype
         THEN <<Head(groups).cards>> \o GroupsOfType(Tail(groups), stype)
         ELSE GroupsOfType(Tail(groups), stype)

RECURSIVE Concat(_)
Concat(lists) == IF lists = <<>> THEN <<>> ELSE Head(lists) \o Concat(Tail(lists))

\* no card counts as a rune: rune_like is empty and normal is the whole list
RuneLikeNone(h, cards, rune) == IF rune THEN <<>> ELSE cards

\* the cards of the list whose name does (rune = TRUE) or does not contain the rune keyword
RECURSIVE RuneLike(_, _, _)
RuneLike(h, cards, rune) ==
    IF cards = <<>> THEN <<>>
    ELSE IF Contains(h[Head(cards)].name_cn, RunesKey) = rune
         THEN <<Head(cards)>> \o RuneLike(h, Tail(cards), rune)
         ELSE RuneLike(h, Tail(cards), rune)

\* rune_like and normal of every side deck candidate, in order
RECURSIVE RuneLikeOfAll(_, _, _)
RuneLikeOfAll(h, candidates, rune) ==
    IF candidates = <<>> THEN <<>>
    ELSE RuneLike(h, Head(candidates), rune) \o RuneLikeOfAll(h, Tail(candidates), rune)

HandledSections == {"legend_main", "battlefields", "runes", "side_deck"}

\* the cards of the groups whose type is none of the handled ones
RECURSIVE Unhandled(_)
Unhandled(groups) ==
    IF groups = <<>> THEN <<>>
    ELSE IF Head(groups).stype \notin HandledSections
         THEN Head(groups).cards \o Unhandled(Tail(groups))
         ELSE Unhandled(Tail(groups))

BattlefieldLimit == 3

\* cards without the slice
WholeList(cards) == cards

\* cards[:3]
FirstThree(cards) ==
    SubSeq(cards, 1, IF Len(cards) < BattlefieldLimit THEN Len(cards) ELSE BattlefieldLimit)

\* the consolidation of the section groups: result['cards'] and the card dicts
\* as it leaves them
ConsolidateSections(h, groups) ==
    LET legend_groups == GroupsOfType(groups, "legend_main")
        primary == IF legend_groups # <<>> THEN legend_groups[1] ELSE <<>>
        legend == IF primary # <<>> THEN <<primary[1]>> ELSE <<>>
        h1 == IF legend # <<>> THEN [h EXCEPT ![legend[1]].quantity = 1] ELSE h
        main_deck == (IF primary # <<>> THEN Tail(primary) ELSE <<>>) \o
                     (IF legend_groups # <<>> THEN Concat(Tail(legend_groups)) ELSE <<>>)
        battlefields == DeduplicateCards(h1, CardsOfType(groups, "battlefields"), <<>>)
        side_deck_candidates == GroupsOfType(groups, "side_deck")
        rune_cards == CardsOfType(groups, "runes")
                          \o RuneLikeOfAll(battlefields.heap, side_deck_candidates, TRUE)
        normal == RuneLikeOfAll(battlefields.heap, side_deck_candidates, FALSE)
        runes == DeduplicateCards(battlefields.heap, rune_cards, <<>>)
        side_deck == DeduplicateCards(runes.heap, normal, <<>>)
        main == DeduplicateCards(side_deck.heap, main_deck \o Unhandled(groups), <<>>)
    IN [heap |-> main.heap,
        cards |-> [section \in Sections |->
                      CASE section = "legend" -> legend
                        [] section = "main_deck" -> main.ordered
                        [] section = "battlefields" -> FirstThree(battlefields.ordered)
                        [] section = "runes" -> runes.ordered
                        [] section = "side_deck" -> side_deck.ordered]]

----------------------------------------------------------------------------
(* parse_with_two_stage, stage by stage *)

ParserInit ==
    /\ MatcherStart
    /\ dedup = NoDedup
    /\ NoInvocations
    /\ NoService
    /\ NoFunctionCall
    /\ pc = "start"
    /\ sections = <<>>
    /\ duplicates = <<>>
    /\ total_boxes = 0
    /\ cards_in_section = <<>>
    /\ section_groups = <<>>
    /\ heap = <<>>
    /\ result_cards = EmptyCards

\* Stage 1 and the classification loop of stage 1.5: the sections are detected and
\* every section is given its type; an IndexError of classify_section_type ends the call
ClassifySections(detected) ==
    /\ pc = "start"
    /\ LET all_areas == [i \in 1..Len(detected) |-> detected[i].area]
           types == [i \in 1..Len(detected) |->
                        ClassifySectionType(detected[i].header, detected[i].box_area, i,
                                            all_areas, Len(detected))]
       IN IF \E i \in 1..Len(detected) : types[i] = "IndexError"
          THEN /\ pc' = "raised"
               /\ UNCHANGED sections
          ELSE /\ pc' = "classified"
               /\ sections' = [i \in 1..Len(detected) |-> [type |-> types[i], index |-> i]]
    /\ UNCHANGED <<mvars, dedup, avars, bvars, fvars, duplicates, total_boxes, cards_in_section, section_groups,
                   heap, result_cards>>

\* the rest of stage 1.5: only the first section of every type is kept
RemoveDuplicateSections ==
    /\ pc = "classified"
    /\ LET dedup_result == DetectDuplicateSections(sections)
       IN /\ sections' = dedup_result.unique_sections
          /\ duplicates' = dedup_result.duplicates
    /\ pc' = "deduplicated"
    /\ UNCHANGED <<mvars, dedup, avars, bvars, fvars, total_boxes, cards_in_section, section_groups, heap, result_cards>>

\* stage 2 begins, after the removals were reported
BeginStage2 ==
    /\ pc = "deduplicated"
    /\ pc' = "stage2"
    /\ duplicates' = <<>>
    /\ UNCHANGED <<mvars, dedup, avars, bvars, fvars, sections, total_boxes, cards_in_section, section_groups,
                   heap, result_cards>>

\* the section stage 2 is processing
CurrentSection == Len(section_groups) + 1

\* one iteration of the loop over the card boxes of the current section: the box is
\* read, and the card is kept when it has a name
OcrCardBox(reading) ==
    /\ pc = "stage2"
    /\ CurrentSection <= Len(sections)
    /\ total_boxes < MaxBoxes
    /\ total_boxes' = total_boxes + 1
    /\ LET section_type == sections[CurrentSection].type
           card_data == [name_cn       |-> IF reading.card_name = None THEN <<>>
                                           ELSE reading.card_name[1],
                         quantity      |-> IF section_type = "battlefields" THEN 1
                                           ELSE ParseQuantity(reading.qty_text),
                         confidence    |-> 0,
                         section_index |-> CurrentSection,
                         section_type  |-> section_type]
       IN IF reading.card_name # None
          THEN /\ heap' = Append(heap, card_data)
               /\ cards_in_section' = Append(cards_in_section, Len(heap) + 1)
          ELSE UNCHANGED <<heap, cards_in_section>>
    /\ UNCHANGED <<mvars, dedup, avars, bvars, fvars, pc, sections, duplicates, section_groups, result_cards>>

\* every box of the current section was read
FinishSection ==
    /\ pc = "stage2"
    /\ CurrentSection <= Len(sections)
    /\ section_groups' = Append(section_groups,
                                [stype |-> sections[CurrentSection].type,
                                 cards |-> cards_in_section])
    /\ cards_in_section' = <<>>
    /\ UNCHANGED <<mvars, dedup, avars, bvars, fvars, pc, sections, duplicates, total_boxes, heap, result_cards>>

\* every section was processed: the groups are consolidated and the result returned
Consolidate ==
    /\ pc = "stage2"
    /\ CurrentSection > Len(sections)
    /\ LET r == ConsolidateSections(heap, section_groups)
       IN /\ heap' = r.heap
          /\ result_cards' = r.cards
    /\ pc' = "done"
    /\ UNCHANGED <<mvars, dedup, avars, bvars, fvars, sections, duplicates, total_boxes, cards_in_section, section_groups>>

DetectedLists == UNION { [1..n -> DetectedSections] : n \in 0..MaxSections }

ParseNext ==
    \/ \E detected \in DetectedLists : ClassifySections(detected)
    \/ RemoveDuplicateSections
    \/ BeginStage2
    \/ \E reading \in BoxReadings : OcrCardBox(reading)
    \/ FinishSection
    \/ Consolidate

SpecParse == ParserInit /\ [][ParseNext]_vars

----------------------------------------------------------------------------
(* deduplicate_cards applied to a card list, and to its own result *)

\* the card dict ocr_card_box returns for a reading with a name, in a runes section
CardDicts ==
    { [name_cn       |-> reading.card_name[1],
       quantity      |-> ParseQuantity(reading.qty_text),
       confidence    |-> 0,
       section_index |-> 1,
       section_type  |-> "runes"] : reading \in { r \in BoxReadings : r.card_name # None } }

\* the lists of at most MaxBoxes cards
CardLists == UNION { [1..n -> CardDicts] : n \in 0..MaxBoxes }

\* 0, 1, ..., n - 1 as the list of the cards of a heap of n card dicts
Indices(h) == [i \in 1..Len(h) |-> i]

DedupInit ==
    /\ MatcherStart
    /\ ParserIdle
    /\ NoInvocations
    /\ NoService
    /\ NoFunctionCall
    /\ \E cards \in CardLists : dedup = [stage |-> "input", cards |-> cards]

\* ordered = deduplicate_cards(cards)
DedupOnce ==
    /\ dedup.stage = "input"
    /\ LET r == DeduplicateCards(dedup.cards, Indices(dedup.cards), <<>>)
       IN dedup' = [stage |-> "once", cards |-> dedup.cards, once |-> r]
    /\ UNCHANGED <<mvars, pvars, avars, bvars, fvars>>

\* deduplicate_cards(ordered), on the card dicts as the first call left them
DedupTwice ==
    /\ dedup.stage = "once"
    /\ LET r == DeduplicateCards(dedup.once.heap, dedup.once.ordered, <<>>)
       IN dedup' = [stage |-> "twice", cards |-> dedup.cards, once |-> dedup.once,
                    twice |-> r]
    /\ UNCHANGED <<mvars, pvars, avars, bvars, fvars>>

DedupNext == DedupOnce \/ DedupTwice

SpecDedup == DedupInit /\ [][DedupNext]_vars

----------------------------------------------------------------------------
(* Properties of parse_with_two_stage *)

\* the names read in the sections of the given type
NamesRead(stype) == { heap[c].name_cn : c \in Range(CardsOfType(section_groups, stype)) }

\* C2: in the output of parse_with_two_stage the legend list has at most one entry,
\* of quantity 1, and the battlefields list at most three entries, each of quantity 1
C2_LegendAndBattlefields ==
    pc = "done" =>
        /\ Len(result_cards["legend"]) <= 1
        /\ \A i \in 1..Len(result_cards["legend"]) :
               heap[result_cards["legend"][i]].quantity = 1
        /\ Len(result_cards["battlefields"]) <= 3
        /\ \A i \in 1..Len(result_cards["battlefields"]) :
               heap[result_cards["battlefields"][i]].quantity = 1

\* a legend whose quantity region read "x3" and three battlefields, one of them read
\* with "x2", were returned
C2_Witness ==
    /\ pc = "done"
    /\ Len(result_cards["legend"]) = 1
    /\ heap[result_cards["legend"][1]].name_cn = <<"c", "d">>
    /\ Len(result_cards["battlefields"]) = 3
    /\ <<"fu", "wen", "a">> \in NamesRead("battlefields")

\* the cards the consolidation puts in the list of a section before deduplicating it
\* (lines 645-649 and 683 for main_deck, 663 and 672 for runes, 674 for side_deck)
RoutedTo(h, groups, section) ==
    LET legend_groups == GroupsOfType(groups, "legend_main")
        side_deck_candidates == GroupsOfType(groups, "side_deck")
    IN CASE section = "main_deck" ->
                (IF legend_groups # <<>>
                 THEN (IF legend_groups[1] # <<>> THEN Tail(legend_groups[1]) ELSE <<>>)
                          \o Concat(Tail(legend_groups))
                 ELSE <<>>) \o Unhandled(groups)
         [] section = "runes" ->
                CardsOfType(groups, "runes") \o RuneLikeOfAll(h, side_deck_candidates, TRUE)
         [] section = "side_deck" -> RuneLikeOfAll(h, side_deck_candidates, FALSE)

\* the names of the cards, each at its first occurrence only
RECURSIVE FirstSeen(_, _, _)
FirstSeen(h, cards, seen) ==
    IF cards = <<>> THEN <<>>
    ELSE LET name == h[Head(cards)].name_cn
         IN IF name \in seen THEN FirstSeen(h, Tail(cards), seen)
            ELSE <<name>> \o FirstSeen(h, Tail(cards), seen \cup {name})

\* the largest quantity of a card with the given name in the list
MaxQuantity(h, cards, name) ==
    LET quantities == { h[cards[i]].quantity :
                            i \in { j \in 1..Len(cards) : h[cards[j]].name_cn = name } }
    IN CHOOSE q \in quantities : \A other \in quantities : other <= q

\* out is routed with one entry per name, in first-seen order, with the largest
\* quantity extracted for the name; h holds the cards as extracted, after as returned
DedupContract(h, routed, out, after) ==
    /\ \A i, j \in 1..Len(out) : i # j => after[out[i]].name_cn # after[out[j]].name_cn
    /\ [i \in 1..Len(out) |-> after[out[i]].name_cn] = FirstSeen(h, routed, {})
    /\ \A i \in 1..Len(out) :
           after[out[i]].quantity = MaxQuantity(h, routed, after[out[i]].name_cn)

DedupedSections == {"main_deck", "runes", "side_deck"}

\* C3: when parse_with_two_stage consolidates, each of main_deck, runes and side_deck
\* gets one entry per name, in first-seen order, whose quantity is the maximum of the
\* quantities extracted for the cards of that name routed to the list
C3_DedupLists ==
    [][(pc = "stage2" /\ pc' = "done") =>
           \A section \in DedupedSections :
               DedupContract(heap, RoutedTo(heap, section_groups, section),
                             result_cards'[section], heap')]_vars

\* rune-like cards of the side deck were moved to runes, and in one of the lists two
\* cards of one name, read with quantities 1 and 2, became one entry of quantity 2
C3_Witness ==
    /\ pc = "done"
    /\ \E section \in DedupedSections :
           LET routed == RoutedTo(heap, section_groups, section)
           IN /\ Len(result_cards[section]) < Len(routed)
              /\ \E i \in 1..Len(routed) :
                     /\ heap[routed[i]].quantity = 1
                     /\ heap[result_cards[section][1]].name_cn = heap[routed[i]].name_cn
                     /\ heap[result_cards[section][1]].quantity = 2
    /\ Len(result_cards["runes"]) > Len(CardsOfType(section_groups, "runes"))

----------------------------------------------------------------------------
(* Properties of deduplicate_cards *)

\* the names and quantities of a result of deduplicate_cards, in order
NamesAndQuantities(r) ==
    [i \in 1..Len(r.ordered) |-> [name_cn  |-> r.heap[r.ordered[i]].name_cn,
                                  quantity |-> r.heap[r.ordered[i]].quantity]]

\* C4: deduplicate_cards applied to its own result returns the same names, in the
\* same order and with the same quantities, as the first application
C4_DedupIdempotent ==
    dedup.stage = "twice" => NamesAndQuantities(dedup.twice) = NamesAndQuantities(dedup.once)

\* the first application dropped a card and raised the quantity of a kept card
\* in place, and the function was applied again
C4_Witness ==
    /\ dedup.stage = "twice"
    /\ Len(dedup.once.ordered) < Len(dedup.cards)
    /\ \E i \in 1..Len(dedup.once.ordered) :
           dedup.once.heap[dedup.once.ordered[i]].quantity
               > dedup.cards[dedup.once.ordered[i]].quantity

----------------------------------------------------------------------------
(* The card count of match_decklist *)

\* the sum of the quantity field over the cards of a list
RECURSIVE SumQuantities(_)
SumQuantities(cards) ==
    IF cards = <<>> THEN 0 ELSE Head(cards).quantity + SumQuantities(Tail(cards))

\* the number of card copies of a parsed decklist
Copies(parsed_decklist) ==
    SumQuantities(Concat([i \in 1..Len(SectionOrder) |->
                              parsed_decklist.cards[SectionOrder[i]]]))

\* C11: stats.total_cards of match_decklist is the number of card copies of the
\* decklist, the sum of the quantity field over every card of every section
C11_TotalIsCopies ==
    IsDecklistCall => call.matched.stats.total_cards = Copies(call.parsed_decklist)

----------------------------------------------------------------------------
(* The quantities of parse_with_two_stage *)

MaxQtyLen == 3

QtyChars == {"x", " ", "0", "1", "2", "3"}

\* the texts of at most MaxQtyLen characters the quantity region may read
QtyTexts == UNION { [1..n -> QtyChars] : n \in 0..MaxQtyLen }

RECURSIVE Pow10(_)
Pow10(n) == IF n = 0 THEN 1 ELSE 10 * Pow10(n - 1)

\* the number written by the characters first..last of the text
RECURSIVE Number(_, _, _)
Number(text, first, last) ==
    IF first > last THEN 0
    ELSE DigitValue(text[first]) * Pow10(last - first) + Number(text, first + 1, last)

\* the quantity a text stands for: the value of its first digit run when that lies
\* in 1..12, and 1 otherwise
QuantityOf(text) ==
    LET digits == { i \in 1..Len(text) : text[i] \in Digits }
    IN IF digits = {} THEN 1
       ELSE LET first == CHOOSE i \in digits : \A j \in digits : i <= j
                last == CHOOSE j \in first..Len(text) :
                            /\ \A k \in first..j : k \in digits
                            /\ (j + 1) \notin digits
                value == Number(text, first, last)
            IN IF value \in 1..12 THEN value ELSE 1

\* the cards of result['cards'], of every section
OutputCards == UNION { Range(result_cards[section]) : section \in Sections }

\* C12: every card extracted and every card in the output of parse_with_two_stage has a
\* quantity in 1..12; ocr_card_box gives the value of the first digit run of the
\* quantity text when it lies in 1..12 and 1 otherwise. The function does not depend
\* on the state, so it is compared on every text once, when the call starts.
C12_QuantityRange ==
    /\ \A i \in 1..Len(heap) : heap[i].quantity \in 1..12
    /\ pc = "done" => \A c \in OutputCards : heap[c].quantity \in 1..12
    /\ pc = "start" => \A text \in QtyTexts : ParseQuantity(text) = QuantityOf(text)

\* the output holds the card whose quantity region read "13", with quantity 1, and a
\* card whose quantity was raised by deduplicate_cards
C12_Witness ==
    /\ pc = "done"
    /\ \E c \in OutputCards : heap[c].name_cn = <<"e", "f">> /\ heap[c].quantity = 1
    /\ \E c \in OutputCards :
           /\ heap[c].quantity = 2
           /\ \E i \in 1..Len(heap) : i # c /\ heap[i].name_cn = heap[c].name_cn

----------------------------------------------------------------------------
(* Properties of detect_duplicate_sections *)

\* the positions of the sections of a role in a list of classified sections
PositionsOf(secs, role) == { i \in 1..Len(secs) : secs[i].type = role }

RolesOf(secs) == { secs[i].type : i \in 1..Len(secs) }

\* kept and reports are what the claim asks for the classified sections secs
CollapsedTo(secs, kept, reports) ==
    /\ RolesOf(kept) = RolesOf(secs)
    /\ \A role \in RolesOf(secs) :
           LET first == CHOOSE i \in PositionsOf(secs, role) :
                            \A j \in PositionsOf(secs, role) : i <= j
           IN /\ Cardinality(PositionsOf(kept, role)) = 1
              /\ \A k \in PositionsOf(kept, role) : kept[k] = secs[first]
              /\ Cardinality({ r \in 1..Len(reports) : reports[r].type = role })
                     = IF Cardinality(PositionsOf(secs, role)) > 1 THEN 1 ELSE 0
              /\ \A r \in 1..Len(reports) :
                     reports[r].type = role =>
                         /\ reports[r].count = Cardinality(PositionsOf(secs, role))
                         /\ reports[r].kept_index = first - 1
    /\ \A r \in 1..Len(reports) : reports[r].type \in RolesOf(secs)

\* C13: detect_duplicate_sections returns exactly one section for each role of the
\* classified sections, the first of that role in detection order, and reports one
\* duplicates entry for each role that occurred more than once
C13_FirstOfEachRole ==
    [][(pc = "classified" /\ pc' = "deduplicated") =>
           CollapsedTo(sections, sections', duplicates')]_vars

\* two sections were classified as runes; the first was kept and one removal reported
C13_Witness ==
    /\ pc = "deduplicated"
    /\ Len(sections) = 1
    /\ sections[1] = [type |-> "runes", index |-> 1]
    /\ Len(duplicates) = 1
    /\ duplicates[1].type = "runes"
    /\ duplicates[1].count = 2
    /\ duplicates[1].removed_indices = <<1>>

----------------------------------------------------------------------------
(* parse_with_two_stage run by several threads of one process: the metadata
   stage and the cleanup, which work on files of the working directory *)

MaxInvocations == 2

Invocations == 1..MaxInvocations

\* for field_name in ['player', 'deck_name', 'event', 'date', 'placement']
MetadataFields == <<"player", "deck_name", "event", "date", "placement">>

\* "temp_metadata.png"
FallbackFile == <<"temp_", "metadata", ".png">>

\* temp_path = f"temp_{field_name}_crop.png"
CropFile(field_name) == <<"temp_", field_name, "_crop.png">>

FileNames == { CropFile(MetadataFields[i]) : i \in 1..Len(MetadataFields) } \cup {FallbackFile}

\* the config file: missing, or present with regions for some of the fields
Configs ==
    { [exists |-> FALSE, regions |-> {}],
      [exists |-> TRUE, regions |-> {"player"}],
      [exists |-> TRUE, regions |-> {"date", "placement"}] }

ResultKeys == Range(MetadataFields) \cup {"metadata"}

\* A file holds the crop of the invocation that saved it last, 0 when it does not
\* exist. The text read from a crop is named by the invocation the crop belongs to.
ConcurrentInit ==
    /\ MatcherStart
    /\ ParserIdle
    /\ dedup = NoDedup
    /\ NoService
    /\ NoFunctionCall
    /\ config \in Configs
    /\ files = [name \in FileNames |-> 0]
    /\ invocations = [t \in Invocations |->
                          [pc |-> "start", field |-> 0, result |-> [k \in ResultKeys |-> 0]]]

\* the fields after position i that have a region in the config
FieldsAfter(i) == { j \in (i + 1)..Len(MetadataFields) : MetadataFields[j] \in config.regions }

NextField(i) == CHOOSE j \in FieldsAfter(i) : \A k \in FieldsAfter(i) : j <= k

\* extract_metadata_position_based returns None without the config file, and
\* parse_with_two_stage then takes the pattern-based fallback
BeginMetadata(t) ==
    /\ invocations[t].pc = "start"
    /\ invocations' = [invocations EXCEPT ![t].pc = IF config.exists THEN "metadata"
                                                   ELSE "fallback"]
    /\ UNCHANGED <<mvars, pvars, dedup, bvars, fvars, config, files>>

\* the next field with a region: its crop is saved under the fixed name
SaveCrop(t) ==
    /\ invocations[t].pc = "metadata"
    /\ FieldsAfter(invocations[t].field) # {}
    /\ LET j == NextField(invocations[t].field)
       IN /\ files' = [files EXCEPT ![CropFile(MetadataFields[j])] = t]
          /\ invocations' = [invocations EXCEPT ![t].pc = "crop_saved", ![t].field = j]
    /\ UNCHANGED <<mvars, pvars, dedup, bvars, fvars, config>>

\* PaddleOCR reads the file of that name; reading a missing file raises inside the
\* try, and the field stays None
OcrCrop(t) ==
    /\ invocations[t].pc = "crop_saved"
    /\ LET field_name == MetadataFields[invocations[t].field]
       IN invocations' = [invocations EXCEPT ![t].pc = "crop_read",
                                             ![t].result[field_name] = files[CropFile(field_name)]]
    /\ UNCHANGED <<mvars, pvars, dedup, bvars, fvars, config, files>>

\* finally: the file is removed when it exists, errors ignored
RemoveCrop(t) ==
    /\ invocations[t].pc = "crop_read"
    /\ files' = [files EXCEPT ![CropFile(MetadataFields[invocations[t].field])] = 0]
    /\ invocations' = [invocations EXCEPT ![t].pc = "metadata"]
    /\ UNCHANGED <<mvars, pvars, dedup, bvars, fvars, config>>

\* no field is left; the stages that follow touch none of these files
FinishMetadata(t) ==
    /\ invocations[t].pc = "metadata"
    /\ FieldsAfter(invocations[t].field) = {}
    /\ invocations' = [invocations EXCEPT ![t].pc = "cleanup"]
    /\ UNCHANGED <<mvars, pvars, dedup, bvars, fvars, config, files>>

\* metadata_crop.save("temp_metadata.png")
SaveFallback(t) ==
    /\ invocations[t].pc = "fallback"
    /\ files' = [files EXCEPT ![FallbackFile] = t]
    /\ invocations' = [invocations EXCEPT ![t].pc = "fallback_saved"]
    /\ UNCHANGED <<mvars, pvars, dedup, bvars, fvars, config>>

\* get_paddle_ocr().ocr("temp_metadata.png"), outside any try
OcrFallback(t) ==
    /\ invocations[t].pc = "fallback_saved"
    /\ invocations' = IF files[FallbackFile] = 0
                      THEN [invocations EXCEPT ![t].pc = "raised"]
                      ELSE [invocations EXCEPT ![t].pc = "cleanup",
                                               ![t].result["metadata"] = files[FallbackFile]]
    /\ UNCHANGED <<mvars, pvars, dedup, bvars, fvars, config, files>>

\* cleanup: if os.path.exists(temp_file)
CheckCleanup(t) ==
    /\ invocations[t].pc = "cleanup"
    /\ invocations' = [invocations EXCEPT ![t].pc = IF files[FallbackFile] # 0
                                                   THEN "cleanup_remove" ELSE "done"]
    /\ UNCHANGED <<mvars, pvars, dedup, bvars, fvars, config, files>>

\* cleanup: os.remove(temp_file), which raises when the file is gone by now
RemoveFallback(t) ==
    /\ invocations[t].pc = "cleanup_remove"
    /\ IF files[FallbackFile] = 0
       THEN /\ invocations' = [invocations EXCEPT ![t].pc = "raised"]
            /\ UNCHANGED files
       ELSE /\ invocations' = [invocations EXCEPT ![t].pc = "done"]
            /\ files' = [files EXCEPT ![FallbackFile] = 0]
    /\ UNCHANGED <<mvars, pvars, dedup, bvars, fvars, config>>

ConcurrentNext ==
    \E t \in Invocations :
        \/ BeginMetadata(t)
        \/ SaveCrop(t)
        \/ OcrCrop(t)
        \/ RemoveCrop(t)
        \/ FinishMetadata(t)
        \/ SaveFallback(t)
        \/ OcrFallback(t)
        \/ CheckCleanup(t)
        \/ RemoveFallback(t)

SpecConcurrent == ConcurrentInit /\ [][ConcurrentNext]_vars

\* what an invocation reads when it runs alone
Alone(t) ==
    [k \in ResultKeys |->
        IF (config.exists /\ k \in config.regions) \/ (~config.exists /\ k = "metadata")
        THEN t ELSE 0]

\* C14: an invocation of parse_with_two_stage never fails and never reads anything
\* but its own crops, whatever the other invocations do at the same time: its
\* result is the one it gets when it runs alone
C14_InvocationLocal ==
    \A t \in Invocations :
        /\ invocations[t].pc # "raised"
        /\ invocations[t].pc = "done" => invocations[t].result = Alone(t)

----------------------------------------------------------------------------
(* The card database after construction *)

\* C15: once the matcher is constructed, no call of match or match_decklist changes
\* mappings (the order of the record list of a name included), base_name_mappings
\* or chinese_names
C15_DatabaseNeverMutated ==
    [][phase = "ready" =>
           /\ mappings' = mappings
           /\ base_name_mappings' = base_name_mappings
           /\ chinese_names' = chinese_names]_vars

----------------------------------------------------------------------------
(* routes.py: the matcher of the service and the batch endpoints *)

MaxFiles == 3

SmallBatchSize == 2

DefaultBatchSize == 10

DefaultWorkers == 2

\* the settings: max_batch_size (the default, or a smaller one set by the
\* environment), enable_parallel (False by default) and max_workers
SettingsPool ==
    [max_batch_size : {SmallBatchSize, DefaultBatchSize},
     enable_parallel : BOOLEAN,
     max_workers : {DefaultWorkers}]

Endpoints == {"process-batch", "process-batch-stream", "process-batch-fast"}

\* what happens to an uploaded file: it is no image, reading it raises, it is too
\* large, parse_with_two_stage or match_decklist raises on it, or it is processed
FileKinds == {"not_image", "read_error", "oversized", "failing", "valid"}

Batches == UNION { [1..n -> FileKinds] : n \in 1..MaxFiles }

ServiceInit ==
    /\ MatcherStart
    /\ ParserIdle
    /\ dedup = NoDedup
    /\ NoInvocations
    /\ NoFunctionCall
    /\ settings \in SettingsPool
    /\ db_exists \in BOOLEAN
    /\ matcher = "unset"
    /\ request = <<>>
    /\ status_code = 0
    /\ events = <<>>
    /\ endpoint_pc = "import"
    /\ idx = 0
    /\ successful = 0
    /\ failed = 0
    /\ file_data_list = <<>>
    /\ parsed = 0
    /\ futures = <<>>

\* CardMatcher(path): open() raises when the file is missing
ConstructMatcher(exists) == IF exists THEN "loaded" ELSE "raised"

\* the module is imported: the matcher is constructed, and is None when that raised
ImportRoutes ==
    /\ endpoint_pc = "import"
    /\ matcher' = IF ConstructMatcher(db_exists) = "raised" THEN "None" ELSE "loaded"
    /\ endpoint_pc' = "serving"
    /\ UNCHANGED <<mvars, pvars, dedup, avars, fvars, settings, db_exists, request, status_code,
                   events, idx, successful, failed, file_data_list, parsed, futures>>

\* the checks of process-batch-fast before its event generator exists, without
\* the check of enable_parallel
PreconditionsOfStream(endpoint, the_matcher, the_settings, count) ==
    IF the_matcher = "None" THEN 503
    ELSE IF count > the_settings.max_batch_size THEN 400
    ELSE 200

\* the checks an endpoint makes before anything else: the status it answers with
Preconditions(endpoint, the_matcher, the_settings, count) ==
    IF the_matcher = "None" THEN 503
    ELSE IF endpoint = "process-batch-fast" /\ ~the_settings.enable_parallel THEN 400
    ELSE IF count > the_settings.max_batch_size THEN 400
    ELSE 200

\* a request arrives: it is rejected with an HTTPException or its handler starts
Receive(endpoint, batch) ==
    /\ endpoint_pc = "serving"
    /\ request = <<>>
    /\ request' = [endpoint |-> endpoint, files |-> batch]
    /\ LET status == Preconditions(endpoint, matcher, settings, Len(batch))
       IN /\ status_code' = status
          /\ endpoint_pc' = IF status = 200 THEN "files" ELSE "rejected"
    /\ UNCHANGED <<mvars, pvars, dedup, avars, fvars, settings, db_exists, matcher, events, idx,
                   successful, failed, file_data_list, parsed, futures>>

\* an event of the stream; the fields an event type does not have are 0 or ""
Event(type, index, detail) ==
    [event |-> type, index |-> index, detail |-> detail, current |-> 0,
     total |-> 0, successful |-> 0, failed |-> 0]

\* a progress event: SSEProgressEvent(current, total, filename, status)
ProgressEvent(current, total, status) ==
    [event |-> "progress", index |-> 0, detail |-> status, current |-> current,
     total |-> total, successful |-> 0, failed |-> 0]

\* the complete event
CompleteEvent(total, n_successful, n_failed) ==
    [event |-> "complete", index |-> 0, detail |-> "", current |-> 0,
     total |-> total, successful |-> n_successful, failed |-> n_failed]

\* whether the file gets as far as parse_with_two_stage
Validated(kind) == kind \in {"failing", "valid"}

\* one iteration of the loop of process-batch-stream with the later file not counted
\* when it fails in processing
StreamFileDropped(index, kind) ==
    IF Validated(kind)
    THEN [events |-> <<ProgressEvent(index + 1, Len(request.files), "validating"),
                       ProgressEvent(index + 1, Len(request.files), "processing")>>
                     \o (IF kind = "valid" THEN <<Event("result", index, "")>> ELSE <<>>),
          successful |-> IF kind = "valid" THEN 1 ELSE 0,
          failed |-> 0,
          parsed |-> 1]
    ELSE [events |-> <<ProgressEvent(index + 1, Len(request.files), "validating"),
                       Event("error", index, IF kind = "read_error" THEN "processing"
                                             ELSE "validation")>>,
          successful |-> 0, failed |-> 1, parsed |-> 0]

\* one iteration of the loop of process-batch-stream that does not announce the
\* processing of a validated file
StreamFileUnannounced(index, kind) ==
    IF Validated(kind)
    THEN [events |-> <<ProgressEvent(index + 1, Len(request.files), "validating"),
                       IF kind = "valid" THEN Event("result", index, "")
                       ELSE Event("error", index, "processing")>>,
          successful |-> IF kind = "valid" THEN 1 ELSE 0,
          failed |-> IF kind = "valid" THEN 0 ELSE 1,
          parsed |-> 1]
    ELSE [events |-> <<ProgressEvent(index + 1, Len(request.files), "validating"),
                       Event("error", index, IF kind = "read_error" THEN "processing"
                                             ELSE "validation")>>,
          successful |-> 0, failed |-> 1, parsed |-> 0]

\* one iteration of the loop of process-batch-stream: the events it yields and what it
\* adds to the counters
StreamFile(index, kind) ==
    IF Validated(kind)
    THEN [events |-> <<ProgressEvent(index + 1, Len(request.files), "validating"),
                       ProgressEvent(index + 1, Len(request.files), "processing"),
                       IF kind = "valid" THEN Event("result", index, "")
                       ELSE Event("error", index, "processing")>>,
          successful |-> IF kind = "valid" THEN 1 ELSE 0,
          failed |-> IF kind = "valid" THEN 0 ELSE 1,
          parsed |-> 1]
    ELSE [events |-> <<ProgressEvent(index + 1, Len(request.files), "validating"),
                       Event("error", index, IF kind = "read_error" THEN "processing"
                                             ELSE "validation")>>,
          successful |-> 0, failed |-> 1, parsed |-> 0]

\* one iteration of the loop of process-batch, which streams nothing
BatchFile(index, kind) ==
    [events |-> <<>>,
     successful |-> IF kind = "valid" THEN 1 ELSE 0,
     failed |-> IF kind = "valid" THEN 0 ELSE 1,
     parsed |-> IF Validated(kind) THEN 1 ELSE 0]

\* one iteration of the loop of process-batch or process-batch-stream over the files
ProcessFile ==
    /\ endpoint_pc = "files"
    /\ request.endpoint \in {"process-batch", "process-batch-stream"}
    /\ idx < Len(request.files)
    /\ LET step == IF request.endpoint = "process-batch"
                   THEN BatchFile(idx, request.files[idx + 1])
                   ELSE StreamFile(idx, request.files[idx + 1])
       IN /\ events' = events \o step.events
          /\ successful' = successful + step.successful
          /\ failed' = failed + step.failed
          /\ parsed' = parsed + step.parsed
    /\ idx' = idx + 1
    /\ UNCHANGED <<mvars, pvars, dedup, avars, fvars, settings, db_exists, matcher, request,
                   status_code, endpoint_pc, file_data_list, futures>>

\* one iteration of the first loop of process-batch-fast: the file is validated and
\* queued for the workers
ValidateFile ==
    /\ endpoint_pc = "files"
    /\ request.endpoint = "process-batch-fast"
    /\ idx < Len(request.files)
    /\ LET kind == request.files[idx + 1]
       IN IF Validated(kind)
          THEN /\ events' = Append(events, ProgressEvent(idx + 1, Len(request.files), "validating"))
               /\ file_data_list' = Append(file_data_list, [kind |-> kind, index |-> idx])
               /\ UNCHANGED failed
          ELSE /\ events' = events \o <<ProgressEvent(idx + 1, Len(request.files), "validating"),
                                        Event("error", idx, "validation")>>
               /\ failed' = failed + 1
               /\ UNCHANGED file_data_list
    /\ idx' = idx + 1
    /\ UNCHANGED <<mvars, pvars, dedup, avars, fvars, settings, db_exists, matcher, request,
                   status_code, endpoint_pc, successful, parsed, futures>>

\* every queued file in one chunk
AllQueued(list, n) == list

\* the first n elements of a list, all of them when it is shorter
FirstN(list, n) == SubSeq(list, 1, IF Len(list) < n THEN Len(list) ELSE n)

\* the events of the results of a chunk, in the order of submission
RECURSIVE ResultEvents(_)
ResultEvents(chunk) ==
    IF chunk = <<>> THEN <<>>
    ELSE <<IF Head(chunk).kind = "valid" THEN Event("result", Head(chunk).index, "")
           ELSE Event("error", Head(chunk).index, "processing")>>
         \o ResultEvents(Tail(chunk))

\* the futures of a chunk, none of them started
Submitted(chunk) ==
    [i \in 1..Len(chunk) |-> [kind |-> chunk[i].kind, index |-> chunk[i].index, state |-> "queued"]]

\* the futures a thread of the executor is running
Running == { i \in 1..Len(futures) : futures[i].state = "running" }

\* the next chunk of max_workers files of process-batch-fast: the progress events,
\* then loop.run_in_executor for each file; file_data_list holds the files not yet
\* submitted
SubmitChunk ==
    /\ endpoint_pc = "files"
    /\ request.endpoint = "process-batch-fast"
    /\ idx = Len(request.files)
    /\ file_data_list # <<>>
    /\ futures = <<>>
    /\ LET chunk == FirstN(file_data_list, settings.max_workers)
       IN /\ events' = events
                         \o [i \in 1..Len(chunk) |-> ProgressEvent(chunk[i].index + 1, Len(request.files), "processing")]
          /\ futures' = Submitted(chunk)
          /\ file_data_list' = SubSeq(file_data_list, Len(chunk) + 1, Len(file_data_list))
    /\ UNCHANGED <<mvars, pvars, dedup, avars, fvars, settings, db_exists, matcher, request,
                   status_code, endpoint_pc, idx, successful, failed, parsed>>

\* ThreadPoolExecutor(max_workers): a free thread takes a queued call of
\* process_single_image_sync, which calls parse_with_two_stage
StartWorker(i) ==
    /\ i \in 1..Len(futures)
    /\ futures[i].state = "queued"
    /\ Cardinality(Running) < settings.max_workers
    /\ futures' = [futures EXCEPT ![i].state = "running"]
    /\ parsed' = parsed + 1
    /\ UNCHANGED <<mvars, pvars, dedup, avars, fvars, settings, db_exists, matcher, request,
                   status_code, events, endpoint_pc, idx, successful, failed, file_data_list>>

\* process_single_image_sync returns its dict, of a success or of a failure
FinishWorker(i) ==
    /\ i \in 1..Len(futures)
    /\ futures[i].state = "running"
    /\ futures' = [futures EXCEPT ![i].state = "done"]
    /\ UNCHANGED <<mvars, pvars, dedup, avars, fvars, settings, db_exists, matcher, request,
                   status_code, events, endpoint_pc, idx, successful, failed, file_data_list,
                   parsed>>

\* await asyncio.gather(*futures) returns when every future is done; the results are
\* streamed in the order of submission
GatherChunk ==
    /\ futures # <<>>
    /\ \A i \in 1..Len(futures) : futures[i].state = "done"
    /\ LET valid == { i \in 1..Len(futures) : futures[i].kind = "valid" }
       IN /\ events' = events \o ResultEvents(futures)
          /\ successful' = successful + Cardinality(valid)
          /\ failed' = failed + (Len(futures) - Cardinality(valid))
    /\ futures' = <<>>
    /\ UNCHANGED <<mvars, pvars, dedup, avars, fvars, settings, db_exists, matcher, request,
                   status_code, endpoint_pc, idx, file_data_list, parsed>>

\* what a streaming endpoint yields after its loops, without the complete event
NoCompletion(endpoint, total, n_successful, n_failed) == <<>>

\* what an endpoint yields after its loops
Completion(endpoint, total, n_successful, n_failed) ==
    IF endpoint = "process-batch" THEN <<>>
    ELSE <<CompleteEvent(total, n_successful, n_failed)>>

\* the loops are over: the complete event is sent, or the response returned
Complete ==
    /\ endpoint_pc = "files"
    /\ idx = Len(request.files)
    /\ file_data_list = <<>>
    /\ futures = <<>>
    /\ events' = events \o Completion(request.endpoint, Len(request.files), successful, failed)
    /\ endpoint_pc' = "completed"
    /\ UNCHANGED <<mvars, pvars, dedup, avars, fvars, settings, db_exists, matcher, request,
                   status_code, idx, successful, failed, file_data_list, parsed, futures>>

ServiceNext ==
    \/ ImportRoutes
    \/ \E endpoint \in Endpoints, batch \in Batches : Receive(endpoint, batch)
    \/ ProcessFile
    \/ ValidateFile
    \/ SubmitChunk
    \/ \E i \in 1..MaxFiles : StartWorker(i)
    \/ \E i \in 1..MaxFiles : FinishWorker(i)
    \/ GatherChunk
    \/ Complete

SpecService == ServiceInit /\ [][ServiceNext]_vars


\* the generator of a streaming response runs to its end: every iteration of its
\* loops terminates and the client keeps reading
SpecServiceLive ==
    /\ ServiceInit
    /\ [][ServiceNext]_vars
    /\ WF_vars(ProcessFile)
    /\ WF_vars(ValidateFile)
    /\ WF_vars(SubmitChunk)
    /\ \A i \in 1..MaxFiles : WF_vars(StartWorker(i))
    /\ \A i \in 1..MaxFiles : WF_vars(FinishWorker(i))
    /\ WF_vars(GatherChunk)
    /\ WF_vars(Complete)

----------------------------------------------------------------------------
(* Properties of the batch endpoints *)

Streaming == request # <<>> /\ request.endpoint \in {"process-batch-stream", "process-batch-fast"}

\* the files of the request of the given kinds
FilesOfKind(kinds) == { i \in 1..Len(request.files) : request.files[i] \in kinds }

\* the events of the given types about the file at index i
EventsAbout(i, types) ==
    { e \in 1..Len(events) : events[e].event \in types /\ events[e].index = i }

CompleteEvents == { e \in 1..Len(events) : events[e].event = "complete" }

StreamCompleted ==
    /\ endpoint_pc = "completed"
    /\ CompleteEvents = {Len(events)}

FailsPrecondition ==
    \/ matcher = "None"
    \/ Len(request.files) > settings.max_batch_size
    \/ request.endpoint = "process-batch-fast" /\ ~settings.enable_parallel

\* C18: constructing the matcher from a missing file raises, and a request is rejected
\* with 503 when the matcher failed to load, with 400 when the batch is larger than
\* max_batch_size or, for process-batch-fast, when parallel processing is disabled;
\* a rejected request has emitted no event and parse_with_two_stage was not called
C18_RejectedBeforeParsing ==
    /\ ~db_exists => ConstructMatcher(db_exists) = "raised"
    /\ (~db_exists /\ endpoint_pc # "import") => matcher = "None"
    /\ (request # <<>> /\ FailsPrecondition) =>
           /\ status_code = IF matcher = "None" THEN 503 ELSE 400
           /\ endpoint_pc = "rejected"
           /\ events = <<>>
           /\ parsed = 0
    /\ (parsed > 0 \/ events # <<>>) => (request # <<>> /\ ~FailsPrecondition)

\* process-batch-fast was called with the matcher loaded and a batch within the limit
\* while parallel processing is disabled, and answered 400
C18_Witness ==
    /\ request # <<>>
    /\ request.endpoint = "process-batch-fast"
    /\ matcher = "loaded"
    /\ Len(request.files) <= settings.max_batch_size
    /\ ~settings.enable_parallel
    /\ status_code = 400
    /\ endpoint_pc = "rejected"

----------------------------------------------------------------------------
(* parser.py: detect_card_boxes_in_section *)

MaxContours == 2

\* section_box, (x, y, w, h)
SectionBoxes == { <<10, 20, 1000, 300>>, <<0, 400, 1000, 2000>> }

\* the contours cv2.findContours can return for a section: the bounding rectangle
\* (cx, cy, cw, ch) inside the section and the contour area, which is at most cw * ch
Contours(section_box) ==
    { c \in { [cx |-> p[1], cy |-> p[2], cw |-> s[1], ch |-> s[2], area |-> s[3]] :
                p \in { <<0, 0>>, <<480, 0>>, <<0, 150>>, <<480, 150>> },
                s \in { <<400, 100, 39000>>, <<450, 90, 40000>>,
                        <<300, 100, 29000>>, <<520, 100, 51000>>,
                        <<360, 200, 71000>>, <<360, 60, 21000>>,
                        <<400, 150, 59000>>,
                        <<400, 100, 8000>>, <<400, 100, 8001>> } } :
        c.cx + c.cw <= section_box[3] /\ c.cy + c.ch <= section_box[4] }

\* the lists of at most n contours; external contours do not share the corner of
\* their bounding rectangles
RECURSIVE ContourLists(_, _)
ContourLists(section_box, n) ==
    IF n = 0 THEN { <<>> }
    ELSE LET shorter == ContourLists(section_box, n - 1)
             longest == { cs \in shorter : Len(cs) = n - 1 }
             Apart(cs, c) == \A i \in 1..Len(cs) : <<cs[i].cx, cs[i].cy>> # <<c.cx, c.cy>>
         IN shorter \cup
            UNION { { Append(cs, c) : c \in { k \in Contours(section_box) : Apart(cs, k) } } :
                      cs \in longest }

\* the filter with every bound included
CardSizedInclusive(c, w, h) ==
    /\ c.ch > 0
    /\ 18 * c.ch <= 10 * c.cw /\ 10 * c.cw <= 60 * c.ch
    /\ 30 * w <= 100 * c.cw /\ 100 * c.cw <= 52 * w
    /\ 35 <= c.ch /\ 100 * c.ch <= Max(15000, 15 * h)
    /\ c.area >= 8000

\* the condition of the if in the loop over the contours; aspect is 0 when ch is 0,
\* and the decimal bounds are compared in tenths and hundredths
CardSized(c, w, h) ==
    /\ c.ch > 0
    /\ 18 * c.ch < 10 * c.cw /\ 10 * c.cw < 60 * c.ch
    /\ 30 * w < 100 * c.cw /\ 100 * c.cw < 52 * w
    /\ 35 < c.ch /\ 100 * c.ch < Max(15000, 15 * h)
    /\ c.area > 8000

\* card_boxes.sort(key=lambda b: (b[1], b[0])): a stable sort
RECURSIVE InsertBox(_, _)
InsertBox(sorted, b) ==
    IF sorted = <<>> THEN <<b>>
    ELSE IF b[2] < Head(sorted)[2] \/ (b[2] = Head(sorted)[2] /\ b[1] < Head(sorted)[1])
         THEN <<b>> \o sorted
         ELSE <<Head(sorted)>> \o InsertBox(Tail(sorted), b)

RECURSIVE SortBoxes(_)
SortBoxes(boxes) ==
    IF boxes = <<>> THEN <<>>
    ELSE InsertBox(SortBoxes(SubSeq(boxes, 1, Len(boxes) - 1)), boxes[Len(boxes)])

\* detect_card_boxes_in_section, from the contours found in the section
DetectCardBoxesInSection(section_box, contours) ==
    LET x == section_box[1]
        y == section_box[2]
        w == section_box[3]
        h == section_box[4]
        Kept(c) == CardSized(c, w, h)
        kept == SelectSeq(contours, Kept)
        card_boxes == [i \in 1..Len(kept) |->
                          <<x + kept[i].cx, y + kept[i].cy, kept[i].cw, kept[i].ch>>]
    IN SortBoxes(card_boxes)

BoxesInit ==
    /\ MatcherStart
    /\ ParserIdle
    /\ dedup = NoDedup
    /\ NoInvocations
    /\ NoService
    /\ classification = <<>>
    /\ extraction = <<>>
    /\ engines = <<>>
    /\ temps = <<>>
    /\ \E section_box \in SectionBoxes :
           detection \in [stage : {"called"}, section_box : {section_box},
                          contours : ContourLists(section_box, MaxContours),
                          card_boxes : {<<>>}]

DetectBoxes ==
    /\ detection.stage = "called"
    /\ detection' = [detection EXCEPT
                        !.stage = "returned",
                        !.card_boxes = DetectCardBoxesInSection(detection.section_box,
                                                                detection.contours)]
    /\ UNCHANGED <<mvars, pvars, dedup, avars, bvars, classification, extraction, engines, temps>>

BoxesNext == DetectBoxes

SpecBoxes == BoxesInit /\ [][BoxesNext]_vars



----------------------------------------------------------------------------
(* Properties of detect_card_boxes_in_section *)

\* the four filters as bounds on the rectangle of a contour in a w x h section:
\* aspect ratio in (1.8, 6.0), width in (0.30 w, 0.52 w), height in
\* (35, max(150, 0.15 h)), area above 8000
PassesFilters(c, w, h) ==
    LET max_height == IF 15 * h > 15000 THEN 15 * h ELSE 15000
    IN /\ 5 * c.cw > 9 * c.ch /\ c.cw < 6 * c.ch
       /\ 10 * c.cw > 3 * w /\ 25 * c.cw < 13 * w
       /\ c.ch > 35 /\ 100 * c.ch < max_height
       /\ c.area > 8000

\* how often box b is the translated rectangle of a contour that passes the filters
TimesExpected(b) ==
    Cardinality({ i \in 1..Len(detection.contours) :
        LET c == detection.contours[i]
        IN /\ PassesFilters(c, detection.section_box[3], detection.section_box[4])
           /\ b = <<detection.section_box[1] + c.cx, detection.section_box[2] + c.cy,
                    c.cw, c.ch>> })

TimesReturned(b) ==
    Cardinality({ i \in 1..Len(detection.card_boxes) : detection.card_boxes[i] = b })

\* every rectangle a contour of the pool can be translated to
AllBoxes ==
    { <<detection.section_box[1] + c.cx, detection.section_box[2] + c.cy, c.cw, c.ch>> :
        c \in Contours(detection.section_box) }

\* C19: detect_card_boxes_in_section returns exactly the contours' rectangles that
\* pass all four filters with strict bounds, each translated by the section origin,
\* in ascending order of (y, x); a 1000 x 300 section with two passing rectangles
\* gives 2 boxes and a section with none gives the empty list.
C19_FilteredTranslatedSorted ==
    (detection # <<>> /\ detection.stage = "returned") =>
        LET card_boxes == detection.card_boxes
        IN /\ \A b \in AllBoxes \cup { card_boxes[i] : i \in 1..Len(card_boxes) } :
                  TimesReturned(b) = TimesExpected(b)
           /\ \A i, j \in 1..Len(card_boxes) :
                  i < j => \/ card_boxes[i][2] < card_boxes[j][2]
                           \/ /\ card_boxes[i][2] = card_boxes[j][2]
                              /\ card_boxes[i][1] <= card_boxes[j][1]
           /\ (\A b \in AllBoxes : TimesExpected(b) = 0) => card_boxes = <<>>
           /\ ( /\ detection.section_box[3] = 1000 /\ detection.section_box[4] = 300
                /\ Cardinality({ i \in 1..Len(detection.contours) :
                       PassesFilters(detection.contours[i], 1000, 300) }) = 2 )
              => Len(card_boxes) = 2

\* a 1000 x 300 section with two contours that pass the filters, given bottom right
\* first: they come back translated and top left first
C19_Witness ==
    /\ detection # <<>>
    /\ detection.stage = "returned"
    /\ detection.section_box = <<10, 20, 1000, 300>>
    /\ Len(detection.contours) = 2
    /\ detection.contours[1] = [cx |-> 480, cy |-> 150, cw |-> 450, ch |-> 90, area |-> 40000]
    /\ detection.contours[2] = [cx |-> 0, cy |-> 0, cw |-> 400, ch |-> 100, area |-> 39000]
    /\ detection.card_boxes = << <<10, 20, 400, 100>>, <<490, 170, 450, 90>> >>

----------------------------------------------------------------------------
(* parser.py: classify_section_type *)

MaxKeywords == 2

MaxClassified == 4

\* the words a header strip can show: the five keywords and a word that is none
HeaderWords ==
    { LegendKey, MainDeckKey, BattlefieldsKey, RunesKey, SideDeckKey, <<"ka", "zu">> }

\* ''.join(header_texts): at most n words one after the other
RECURSIVE JoinedHeaders(_)
JoinedHeaders(n) ==
    IF n = 0 THEN { <<>> }
    ELSE LET shorter == JoinedHeaders(n - 1)
         IN shorter \cup { h \o word : h \in shorter, word \in HeaderWords }

\* the arguments of one call from the loop over the sections: all_areas holds the
\* contour area of every section, index counts from 1, total_sections is len(sections),
\* and section_area is w * h of the bounding rectangle of section index, which is
\* greater than the area of its contour
ClassifyCalls ==
    UNION { { c \in [normalized : JoinedHeaders(MaxKeywords), section_area : {4, 6, 10},
                     index : 1..n, all_areas : [1..n -> {2, 4, 6, 8}], total_sections : {n}] :
                c.all_areas[c.index] < c.section_area } :
            n \in 1..MaxClassified }

ClassifyInit ==
    /\ MatcherStart
    /\ ParserIdle
    /\ dedup = NoDedup
    /\ NoInvocations
    /\ NoService
    /\ detection = <<>>
    /\ extraction = <<>>
    /\ engines = <<>>
    /\ temps = <<>>
    /\ \E args \in ClassifyCalls :
           classification = [stage |-> "called", args |-> args, section_type |-> "none"]

\* the call returns the section type or raises the IndexError of the area fallback
Classify ==
    /\ classification.stage = "called"
    /\ LET args == classification.args
           r == ClassifySectionType(args.normalized, args.section_area, args.index,
                                    args.all_areas, args.total_sections)
       IN classification' = [classification EXCEPT
                                !.stage = IF r = "IndexError" THEN "raised" ELSE "returned",
                                !.section_type = r]
    /\ UNCHANGED <<mvars, pvars, dedup, avars, bvars, detection, extraction, engines, temps>>

ClassifyNext == Classify

SpecClassify == ClassifyInit /\ [][ClassifyNext]_vars

----------------------------------------------------------------------------
(* Properties of classify_section_type *)

\* C20: a header text that contains the legend keyword or the main-deck keyword is
\* classified legend_main, also when it contains a battlefield, rune or side-deck
\* keyword as well: the legend/main-deck rule is evaluated before the other three.
C20_LegendOrMainDeckFirst ==
    ( /\ classification # <<>>
      /\ classification.stage # "called"
      /\ \/ Contains(classification.args.normalized, LegendKey)
         \/ Contains(classification.args.normalized, MainDeckKey) )
    => classification.section_type = "legend_main"


\* the header text holds none of the five keywords (an unreadable header is empty)
NoKeyword(normalized) ==
    \A key \in {LegendKey, MainDeckKey, BattlefieldsKey, RunesKey, SideDeckKey} :
        ~Contains(normalized, key)

\* how many sections have a greater area than the section classified
LargerSections(args) ==
    Cardinality({ j \in 1..Len(args.all_areas) : args.all_areas[j] > args.all_areas[args.index] })

\* C21: with a header that is unreadable or holds no keyword the sections are ranked
\* by area: the largest is legend_main, the second largest battlefields, the third
\* largest runes, and of the others only the last detected is side_deck, every other
\* one runes.
C21_RankedByArea ==
    ( /\ classification # <<>>
      /\ classification.stage = "returned"
      /\ NoKeyword(classification.args.normalized) )
    => LET args == classification.args
           larger == LargerSections(args)
       IN classification.section_type =
              IF larger = 0 THEN "legend_main"
              ELSE IF larger = 1 THEN "battlefields"
              ELSE IF larger = 2 THEN "runes"
              ELSE IF args.index = args.total_sections THEN "side_deck"
              ELSE "runes"

\* C27: for every section of every non-empty section list classify_section_type
\* returns one of the four roles and does not raise, also with an unreadable header
\* and fewer than three sections.
C27_AlwaysARole ==
    (classification # <<>> /\ classification.stage # "called")
    => /\ classification.stage = "returned"
       /\ classification.section_type \in {"legend_main", "battlefields", "runes", "side_deck"}

----------------------------------------------------------------------------
(* parser.py: extract_name_with_fallback and the card it gives to stage 2 *)

MaxTokens == 2

\* the labels _extract_card_name_from_texts skips
HeaderLabels ==
    { <<"chuan", "qi", "pai">>, <<"zhu", "pai", "zu">>, <<"zhan", "chang", "pai">>,
      <<"fu", "wen", "pai">>, <<"bei", "pai">> }

\* re.match(r'^[xX]?\d+$', s)
RECURSIVE AllDigits(_)
AllDigits(s) == s = <<>> \/ (Head(s) \in Digits /\ AllDigits(Tail(s)))

IsQuantityToken(s) ==
    /\ s # <<>>
    /\ IF Head(s) \in {"x", "X"} THEN Len(s) >= 2 /\ AllDigits(Tail(s)) ELSE AllDigits(s)

\* re.match(r'^[\d\sxX]+$', s)
OnlyDigitsSpacesX(s) ==
    /\ s # <<>>
    /\ \A i \in 1..Len(s) : s[i] \in Digits \cup {" ", "x", "X"}

\* s without its longest prefix of characters of the set
RECURSIVE DropWhile(_, _)
DropWhile(s, chars) ==
    IF s # <<>> /\ Head(s) \in chars THEN DropWhile(Tail(s), chars) ELSE s

\* re.sub(r'\s*[xX]\d+\s*', '', s): every leftmost match is removed
RECURSIVE RemoveQuantities(_)
RemoveQuantities(s) ==
    IF s = <<>> THEN <<>>
    ELSE LET after_spaces == DropWhile(s, {" "})
         IN IF /\ Len(after_spaces) >= 2
               /\ after_spaces[1] \in {"x", "X"}
               /\ after_spaces[2] \in Digits
            THEN RemoveQuantities(DropWhile(DropWhile(Tail(after_spaces), Digits), {" "}))
            ELSE <<Head(s)>> \o RemoveQuantities(Tail(s))

\* _extract_card_name_from_texts, from the text accumulated so far
RECURSIVE ExtractCardNameFromTexts(_, _)
ExtractCardNameFromTexts(texts, accumulated) ==
    IF texts = <<>> THEN (IF accumulated = <<>> THEN None ELSE Some(accumulated))
    ELSE LET cleaned == Strip(Head(texts))
             without == Strip(RemoveQuantities(cleaned))
         IN IF cleaned \in HeaderLabels \/ IsQuantityToken(cleaned)
            THEN ExtractCardNameFromTexts(Tail(texts), accumulated)
            ELSE IF without # <<>> /\ ~OnlyDigitsSpacesX(without)
            THEN IF Len(accumulated \o without) >= 2
                 THEN Some(accumulated \o without)
                 ELSE ExtractCardNameFromTexts(Tail(texts), accumulated \o without)
            ELSE ExtractCardNameFromTexts(Tail(texts), accumulated)

\* _easyocr_cn: the first text that is not blank, stripped
EasyOcrCnName(result) ==
    LET NotBlank(text) == Strip(text) # <<>>
        kept == SelectSeq(result, NotBlank)
    IN IF kept = <<>> THEN None ELSE Some(Strip(kept[1]))

\* name_regions: the crop windows as hundredths of the box width, with their labels
NameRegions ==
    << [window |-> <<25, 89>>, label |-> "paddle_25_89"],
       [window |-> <<20, 92>>, label |-> "paddle_20_92"],
       [window |-> <<0, 100>>, label |-> "paddle_full"] >>

\* the region given to the EasyOCR fallback
FallbackRegion == NameRegions[1]

\* a result that is accepted whatever its length
AcceptedNonEmpty(card_name) == card_name # None

\* card_name and len(card_name) >= 2
Accepted(card_name) == card_name # None /\ Len(card_name[1]) >= 2

\* the texts a recognizer can return for a region
NameTokens ==
    { <<>>,
      <<"chuan", "qi", "pai">>,
      <<"bei", "pai">>,
      <<"chuan">>,
      <<"qi", "pai">>,
      <<"x", "1">>,
      <<"1", "2">>,
      <<"x">>,
      <<"yi">>,
      <<"yi", "feng">>,
      <<" ", "yi", "feng", " ">>,
      <<"yi", "feng", " ", "x", "2">>,
      <<"chuan", "qi", "x", "1", "pai">> }

TokenLists == UNION { [1..n -> NameTokens] : n \in 0..MaxTokens }

\* ocr_card_box was called for a card box of the section
NameInit ==
    /\ MatcherStart
    /\ ParserIdle
    /\ dedup = NoDedup
    /\ NoInvocations
    /\ NoService
    /\ detection = <<>>
    /\ classification = <<>>
    /\ engines = <<>>
    /\ temps = <<>>
    /\ extraction = [stage |-> "paddle", calls |-> <<>>, card_name |-> None,
                     texts |-> <<>>, name_method |-> "none", cards_in_section |-> <<>>]

\* one iteration of the loop over name_regions: _paddle_name_ocr on the next region
PaddleNameOcr(texts) ==
    /\ extraction.stage = "paddle"
    /\ LET region == NameRegions[Len(extraction.calls) + 1]
           card_name == ExtractCardNameFromTexts(texts, <<>>)
           calls == Append(extraction.calls,
                           [engine |-> "paddle", window |-> region.window,
                            card_name |-> card_name])
       IN extraction' =
              IF Accepted(card_name)
              THEN [extraction EXCEPT !.stage = "returned", !.calls = calls,
                                      !.card_name = card_name, !.texts = texts,
                                      !.name_method = region.label]
              ELSE [extraction EXCEPT !.calls = calls,
                                      !.stage = IF Len(calls) = Len(NameRegions)
                                                THEN "easyocr_cn" ELSE "paddle"]
    /\ UNCHANGED <<mvars, pvars, dedup, avars, bvars, detection, classification, engines, temps>>

\* the fallback after the loop: _easyocr_cn, then the return of the name or of None
EasyOcrCn(result) ==
    /\ extraction.stage = "easyocr_cn"
    /\ LET card_name == EasyOcrCnName(result)
           NotBlank(text) == Strip(text) # <<>>
           cleaned == [i \in 1..Len(SelectSeq(result, NotBlank)) |->
                          Strip(SelectSeq(result, NotBlank)[i])]
           calls == Append(extraction.calls,
                           [engine |-> "easyocr_cn", window |-> FallbackRegion.window,
                            card_name |-> card_name])
       IN extraction' =
              IF Accepted(card_name)
              THEN [extraction EXCEPT !.stage = "returned", !.calls = calls,
                                      !.card_name = card_name, !.texts = cleaned,
                                      !.name_method = "easyocr_cn"]
              ELSE [extraction EXCEPT !.stage = "returned", !.calls = calls,
                                      !.card_name = None, !.texts = <<>>,
                                      !.name_method = "failed"]
    /\ UNCHANGED <<mvars, pvars, dedup, avars, bvars, detection, classification, engines, temps>>

\* the body of the loop over the card boxes: the card is appended when it has a name
KeepCard ==
    /\ extraction.stage = "returned"
    /\ extraction' = [extraction EXCEPT
                         !.stage = "done",
                         !.cards_in_section =
                             IF extraction.card_name # None /\ extraction.card_name[1] # <<>>
                             THEN Append(@, extraction.card_name[1]) ELSE @]
    /\ UNCHANGED <<mvars, pvars, dedup, avars, bvars, detection, classification, engines, temps>>

NameNext ==
    \/ \E texts \in TokenLists : PaddleNameOcr(texts)
    \/ \E result \in TokenLists : EasyOcrCn(result)
    \/ KeepCard

SpecName == NameInit /\ [][NameNext]_vars

----------------------------------------------------------------------------
(* Properties of name extraction *)

\* a recognizer's result counts as a name: a cleaned text of length 2 or more
Succeeded(a_call) == a_call.card_name # None /\ Len(a_call.card_name[1]) >= 2

\* the calls in the order the claim gives: the primary recognizer on the three
\* windows, then the secondary recognizer on the first window
AttemptOrder ==
    << <<"paddle", <<25, 89>> >>, <<"paddle", <<20, 92>> >>, <<"paddle", <<0, 100>> >>,
       <<"easyocr_cn", <<25, 89>> >> >>

\* C22: for a card box the primary recognizer is called on the windows
\* [0.25w, 0.89w], [0.20w, 0.92w] and the full width in that order and the calls stop
\* at the first cleaned result of length 2 or more; the secondary recognizer is called
\* only after the three primary calls failed, at most once and on the first window;
\* when it fails too the card has no name and is not appended to the section's cards.
C22_NameAttempts ==
    extraction # <<>> =>
        LET calls == extraction.calls
            finished == extraction.stage \in {"returned", "done"}
        IN /\ Len(calls) <= Len(AttemptOrder)
           /\ \A i \in 1..Len(calls) :
                  /\ <<calls[i].engine, calls[i].window>> = AttemptOrder[i]
                  /\ i < Len(calls) => ~Succeeded(calls[i])
           /\ ~finished => \A i \in 1..Len(calls) : ~Succeeded(calls[i])
           /\ finished =>
                  /\ calls # <<>>
                  /\ \/ Succeeded(calls[Len(calls)])
                     \/ Len(calls) = Len(AttemptOrder)
                  /\ extraction.card_name = IF Succeeded(calls[Len(calls)])
                                            THEN calls[Len(calls)].card_name ELSE None
           /\ extraction.stage = "done" =>
                  extraction.cards_in_section = IF extraction.card_name = None THEN <<>>
                                                ELSE <<extraction.card_name[1]>>

\* the three primary calls failed, the second with a text of one character, the
\* secondary call failed as well and the card was not appended
C22_Witness ==
    /\ extraction # <<>>
    /\ extraction.stage = "done"
    /\ Len(extraction.calls) = 4
    /\ extraction.calls[2].card_name = Some(<<"yi">>)
    /\ extraction.calls[4].card_name = Some(<<"x">>)
    /\ extraction.card_name = None
    /\ extraction.cards_in_section = <<>>

\* C28: no name accepted by name extraction is a section-header label or a pure
\* quantity token (an optional x and digits), whichever recognizer gave it.
C28_NoLabelNoQuantityAsName ==
    (extraction # <<>> /\ extraction.stage \in {"returned", "done"}
        /\ extraction.card_name # None)
    => /\ extraction.card_name[1] \notin HeaderLabels
       /\ ~IsQuantityToken(extraction.card_name[1])

----------------------------------------------------------------------------
(* Properties of the consolidation: runes of the side deck, legend and main deck *)

\* the names of the entries of an output list
NamesIn(section) ==
    { heap[result_cards[section][i]].name_cn : i \in 1..Len(result_cards[section]) }

\* the name contains the rune substring
HasRune(name) == \E i \in 1..(Len(name) - 1) : name[i] = "fu" /\ name[i + 1] = "wen"

\* C23: after consolidation no entry of side_deck has a name containing the rune
\* substring: every card of a side_deck section whose name contains it is moved to
\* the runes (its name is in runes) and every other card of those sections stays in
\* side_deck.
C23_RunesLeaveSideDeck ==
    pc = "done" =>
        /\ \A name \in NamesIn("side_deck") : ~HasRune(name)
        /\ \A name \in NamesRead("side_deck") :
               IF HasRune(name) THEN name \in NamesIn("runes")
               ELSE name \in NamesIn("side_deck")
        /\ NamesIn("side_deck") \subseteq NamesRead("side_deck")

\* a side_deck section with a rune card and another card, and no runes section: the
\* rune card is the only entry of runes, the other card the only entry of side_deck
C23_Witness ==
    /\ pc = "done"
    /\ NamesRead("side_deck") = { <<"fu", "wen", "a">>, <<"a", "b">> }
    /\ NamesRead("runes") = {}
    /\ NamesIn("runes") = { <<"fu", "wen", "a">> }
    /\ NamesIn("side_deck") = { <<"a", "b">> }

\* C24: when the legend_main section yields a named card, the legend list is exactly
\* that section's first card with quantity 1, every other card of legend_main
\* sections has its name in main_deck, and no card of a legend_main section is lost.
C24_LegendIsFirstCard ==
    (pc = "done" /\ CardsOfType(section_groups, "legend_main") # <<>>) =>
        LET cards == CardsOfType(section_groups, "legend_main")
        IN /\ result_cards["legend"] = <<cards[1]>>
           /\ heap[cards[1]].quantity = 1
           /\ \A i \in 2..Len(cards) : heap[cards[i]].name_cn \in NamesIn("main_deck")
           /\ \A i \in 1..Len(cards) :
                  heap[cards[i]].name_cn \in NamesIn("legend") \cup NamesIn("main_deck")

\* a legend_main section with three cards, the second with the name of the first:
\* the first is the legend, the other two names are in main_deck
C24_Witness ==
    /\ pc = "done"
    /\ LET cards == CardsOfType(section_groups, "legend_main")
       IN /\ Len(cards) = 3
          /\ heap[cards[1]].name_cn = <<"a", "b">>
          /\ heap[cards[2]].name_cn = <<"a", "b">>
          /\ heap[cards[3]].name_cn = <<"c", "d">>
          /\ result_cards["legend"] = <<cards[1]>>
          /\ NamesIn("main_deck") = { <<"a", "b">>, <<"c", "d">> }

----------------------------------------------------------------------------
(* Properties of the event stream of process-batch-stream *)

\* the number (from 1) of the file an event is about; 0 for the complete event
FileOf(e) ==
    IF e.event = "progress" THEN e.current
    ELSE IF e.event \in {"result", "error"} THEN e.index + 1
    ELSE 0

\* the events about file number i, in the order of the stream, as <<type, detail>>
EventsOfFile(i) ==
    LET About(e) == FileOf(e) = i
        about == SelectSeq(events, About)
    IN [k \in 1..Len(about) |-> <<about[k].event, about[k].detail>>]

\* the event sequences of one file: a validation error, a result, a processing error
FilePatterns ==
    { << <<"progress", "validating">>, <<"error", "validation">> >>,
      << <<"progress", "validating">>, <<"progress", "processing">>, <<"result", "">> >>,
      << <<"progress", "validating">>, <<"progress", "processing">>,
         <<"error", "processing">> >> }

\* a processing error that follows the validating event at once
FailedRead == << <<"progress", "validating">>, <<"error", "processing">> >>

\* the stream, up to the files the loop has handled, is built of the given patterns:
\* file after file, each starting with progress(validating) with its number and the
\* number of files
StreamBuiltOf(patterns) ==
    (request # <<>> /\ request.endpoint = "process-batch-stream"
        /\ endpoint_pc \in {"files", "completed"})
    => /\ \A i \in 1..idx :
              /\ EventsOfFile(i) \in patterns
              /\ \E k \in 1..Len(events) :
                     /\ events[k] = ProgressEvent(i, Len(request.files), "validating")
                     /\ \A j \in 1..(k - 1) : FileOf(events[j]) < i
       /\ \A j, k \in 1..Len(events) :
              (j < k /\ events[k].event # "complete") =>
                  /\ events[j].event # "complete"
                  /\ FileOf(events[j]) <= FileOf(events[k])
       /\ \A k \in 1..Len(events) :
              events[k].event # "complete" => FileOf(events[k]) \in 1..idx

\* C25 as stated: in the stream of process-batch-stream each file i starts with
\* progress(validating) with current = i + 1 and total = number of files, followed
\* either by exactly one error(validation) and nothing more, or by
\* progress(processing) and exactly one of result or error(processing); all events of
\* a file precede all events of the next.
C25_Original == StreamBuiltOf(FilePatterns)

\* C25, amended: as stated, with a third sequence for a file: when reading the upload
\* raises, progress(validating) is followed at once by exactly one error(processing)
\* and nothing more.
C25_EventsPerFile == StreamBuiltOf(FilePatterns \cup {FailedRead})

\* a completed stream of a file that cannot be read, a file that is no image and a
\* valid file
C25_Witness ==
    /\ request # <<>>
    /\ request.endpoint = "process-batch-stream"
    /\ endpoint_pc = "completed"
    /\ request.files = <<"read_error", "not_image", "valid">>
    /\ EventsOfFile(1) = FailedRead
    /\ EventsOfFile(3) = << <<"progress", "validating">>, <<"progress", "processing">>,
                            <<"result", "">> >>
    /\ Len(events) = 8

----------------------------------------------------------------------------
(* parser.py: the lazily loaded OCR engines, called from the workers of a thread pool *)

MaxGets == 2

\* _ocr, _easy_reader and _easy_reader_cn, by the name of their getter
EngineNames == {"get_paddle_ocr", "get_easy_reader", "get_easy_reader_cn"}

\* the getters routes.py calls when it is imported
Preloaded == <<"get_paddle_ocr", "get_easy_reader">>

\* routes.py is being imported: no engine exists (0 stands for None; constructed
\* counts the engines a constructor has returned, which are numbered from 1) and the
\* workers have not started
EnginesInit ==
    /\ MatcherStart
    /\ ParserIdle
    /\ dedup = NoDedup
    /\ NoInvocations
    /\ NoService
    /\ detection = <<>>
    /\ classification = <<>>
    /\ extraction = <<>>
    /\ temps = <<>>
    /\ engines = [global |-> [name \in EngineNames |-> 0],
                  constructed |-> [name \in EngineNames |-> 0],
                  preloaded |-> 0,
                  workers |-> [t \in Invocations |->
                                  [pc |-> "idle", getter |-> "none", gets |-> 0,
                                   got |-> [name \in EngineNames |-> {}]]]]

\* the import of routes.py calls the next getter of Preloaded, in the importing
\* thread; the constructor returns or raises, and the except clause of routes.py goes on
PreloadEngine(ok) ==
    /\ engines.preloaded < Len(Preloaded)
    /\ LET name == Preloaded[engines.preloaded + 1]
       IN engines' = [engines EXCEPT
                         !.preloaded = @ + 1,
                         !.constructed[name] = IF ok THEN 1 ELSE 0,
                         !.global[name] = IF ok THEN 1 ELSE 0]
    /\ UNCHANGED <<mvars, pvars, dedup, avars, bvars, detection, classification, extraction, temps>>

\* a worker calls a getter and evaluates the test of its if statement
TestIsNone(t, name) ==
    /\ engines.preloaded = Len(Preloaded)
    /\ engines.workers[t].pc = "idle"
    /\ engines.workers[t].gets < MaxGets
    /\ engines' = [engines EXCEPT
                      !.workers[t].pc = IF engines.global[name] = 0 THEN "construct"
                                        ELSE "return",
                      !.workers[t].getter = name,
                      !.workers[t].gets = @ + 1]
    /\ UNCHANGED <<mvars, pvars, dedup, avars, bvars, detection, classification, extraction, temps>>

\* the constructor returns and the new engine is assigned to the global, or it raises
\* and the getter raises RuntimeError
ConstructEngine(t, ok) ==
    /\ engines.workers[t].pc = "construct"
    /\ LET name == engines.workers[t].getter
           instance == engines.constructed[name] + 1
       IN engines' = [engines EXCEPT
                         !.constructed[name] = IF ok THEN instance ELSE @,
                         !.global[name] = IF ok THEN instance ELSE @,
                         !.workers[t].pc = IF ok THEN "return" ELSE "idle"]
    /\ UNCHANGED <<mvars, pvars, dedup, avars, bvars, detection, classification, extraction, temps>>

\* return of the global
ReturnEngine(t) ==
    /\ engines.workers[t].pc = "return"
    /\ LET name == engines.workers[t].getter
       IN engines' = [engines EXCEPT
                         !.workers[t].pc = "idle",
                         !.workers[t].got[name] = @ \cup {engines.global[name]}]
    /\ UNCHANGED <<mvars, pvars, dedup, avars, bvars, detection, classification, extraction, temps>>

EnginesNext ==
    \/ \E ok \in BOOLEAN : PreloadEngine(ok)
    \/ \E t \in Invocations, name \in EngineNames : TestIsNone(t, name)
    \/ \E t \in Invocations, ok \in BOOLEAN : ConstructEngine(t, ok)
    \/ \E t \in Invocations : ReturnEngine(t)

SpecEngines == EnginesInit /\ [][EnginesNext]_vars

----------------------------------------------------------------------------
(* Properties of the lazily loaded engines *)

\* the engines the callers of a getter were given
Given(name) == UNION { engines.workers[t].got[name] : t \in Invocations }

\* C26: each lazily loaded engine is constructed at most once per process and every
\* caller of its getter gets the same instance, also when several workers call the
\* getter at the same time before the engine exists.
C26_OneInstance ==
    engines # <<>> =>
        \A name \in EngineNames :
            /\ engines.constructed[name] <= 1
            /\ Cardinality(Given(name)) <= 1

----------------------------------------------------------------------------
(* routes.py and parser.py: the temporary files of one image, from the endpoint's
   temporary copy of the upload to the end of its try statement *)

\* tempfile.NamedTemporaryFile(delete=False, suffix=...): the upload in the endpoint,
\* the name crop of _paddle_name_ocr and the quantity crop of ocr_card_box
UploadFile == <<"tmp", ".jpg">>
NameFile == <<"tmp", "_name.png">>
QtyFile == <<"tmp", "_qty.png">>

\* the fields after position i that have a region in the config of the operation
RegionsAfter(i) ==
    { j \in (i + 1)..Len(MetadataFields) : MetadataFields[j] \in temps.config.regions }

\* the endpoint has validated the upload; the image has some card boxes
TempsInit ==
    /\ MatcherStart
    /\ ParserIdle
    /\ dedup = NoDedup
    /\ NoInvocations
    /\ NoService
    /\ detection = <<>>
    /\ classification = <<>>
    /\ extraction = <<>>
    /\ engines = <<>>
    /\ \E a_config \in Configs, boxes \in 0..MaxContours :
           temps = [pc |-> "request", files |-> {}, config |-> a_config, field |-> 0,
                    boxes |-> boxes, ocr_raised |-> FALSE, raised |-> FALSE]

TempsUnchanged == UNCHANGED <<mvars, pvars, dedup, avars, bvars, detection, classification,
                           extraction, engines>>

\* the endpoint writes the upload to a temporary file and enters its try statement;
\* parse_with_two_stage starts with the metadata
SaveUpload ==
    /\ temps.pc = "request"
    /\ temps' = [temps EXCEPT !.files = @ \cup {UploadFile},
                              !.pc = IF temps.config.exists THEN "metadata" ELSE "fallback"]
    /\ TempsUnchanged

\* extract_metadata_position_based: crop.save(temp_path) for the next field with a region
SaveFieldCrop ==
    /\ temps.pc = "metadata"
    /\ RegionsAfter(temps.field) # {}
    /\ LET j == Min(RegionsAfter(temps.field))
       IN temps' = [temps EXCEPT !.files = @ \cup {CropFile(MetadataFields[j])},
                                 !.field = j, !.pc = "crop_saved"]
    /\ TempsUnchanged

\* the OCR of the crop, inside the try: an exception is caught by its except clause
OcrFieldCrop(ok) ==
    /\ temps.pc = "crop_saved"
    /\ temps' = [temps EXCEPT !.pc = "crop_read"]
    /\ TempsUnchanged

\* finally: os.remove(temp_path)
RemoveFieldCrop ==
    /\ temps.pc = "crop_read"
    /\ temps' = [temps EXCEPT !.files = @ \ {CropFile(MetadataFields[temps.field])},
                              !.pc = "metadata"]
    /\ TempsUnchanged

\* every field was handled
FinishFields ==
    /\ temps.pc = "metadata"
    /\ RegionsAfter(temps.field) = {}
    /\ temps' = [temps EXCEPT !.pc = "classify"]
    /\ TempsUnchanged

\* the pattern-based fallback: metadata_crop.save("temp_metadata.png")
SaveMetadataCrop ==
    /\ temps.pc = "fallback"
    /\ temps' = [temps EXCEPT !.files = @ \cup {FallbackFile}, !.pc = "fallback_saved"]
    /\ TempsUnchanged

\* get_paddle_ocr().ocr("temp_metadata.png"), outside any try: an exception leaves
\* parse_with_two_stage
OcrMetadataCrop(ok) ==
    /\ temps.pc = "fallback_saved"
    /\ temps' = [temps EXCEPT !.pc = IF ok THEN "classify" ELSE "finally",
                              !.raised = ~ok]
    /\ TempsUnchanged

\* stages 1 and 1.5: section detection and classification, which can raise
ClassifyImage(ok) ==
    /\ temps.pc = "classify"
    /\ temps' = [temps EXCEPT !.pc = IF ok THEN "boxes" ELSE "finally",
                              !.raised = ~ok]
    /\ TempsUnchanged

\* ocr_card_box for the next card box, _paddle_name_ocr: region.save(temp_name_path)
SaveNameCrop ==
    /\ temps.pc = "boxes"
    /\ temps.boxes > 0
    /\ temps' = [temps EXCEPT !.files = @ \cup {NameFile}, !.pc = "name_saved"]
    /\ TempsUnchanged

\* _paddle_name_ocr: the OCR of the name crop inside try ... finally
OcrNameCrop(ok) ==
    /\ temps.pc = "name_saved"
    /\ temps' = [temps EXCEPT !.pc = "name_read", !.ocr_raised = ~ok]
    /\ TempsUnchanged

\* _paddle_name_ocr: finally os.remove(temp_name_path); an exception of the OCR goes on
\* out of parse_with_two_stage
RemoveNameCrop ==
    /\ temps.pc = "name_read"
    /\ temps' = [temps EXCEPT !.files = @ \ {NameFile},
                              !.pc = IF temps.ocr_raised THEN "finally" ELSE "quantity",
                              !.raised = temps.ocr_raised,
                              !.ocr_raised = FALSE]
    /\ TempsUnchanged

\* ocr_card_box: quantity_region.save(temp_qty_path)
SaveQtyCrop ==
    /\ temps.pc = "quantity"
    /\ temps' = [temps EXCEPT !.files = @ \cup {QtyFile}, !.pc = "qty_saved"]
    /\ TempsUnchanged

\* ocr_card_box: get_easy_reader().readtext(temp_qty_path), outside any try
OcrQtyCrop(ok) ==
    /\ temps.pc = "qty_saved"
    /\ temps' = [temps EXCEPT !.pc = IF ok THEN "qty_read" ELSE "finally",
                              !.raised = ~ok]
    /\ TempsUnchanged

\* ocr_card_box: os.remove(temp_qty_path), and the loop goes to the next card box
RemoveQtyCrop ==
    /\ temps.pc = "qty_read"
    /\ temps' = [temps EXCEPT !.files = @ \ {QtyFile}, !.boxes = @ - 1, !.pc = "boxes"]
    /\ TempsUnchanged

\* the end of parse_with_two_stage: temp_metadata.png is removed when it exists
CleanupMetadata ==
    /\ temps.pc = "boxes"
    /\ temps.boxes = 0
    /\ temps' = [temps EXCEPT !.files = @ \ {FallbackFile}, !.pc = "finally"]
    /\ TempsUnchanged

\* the endpoint's finally clause: os.unlink(tmp_path), after the return or the exception
UnlinkUpload ==
    /\ temps.pc = "finally"
    /\ temps' = [temps EXCEPT !.files = @ \ {UploadFile}, !.pc = "exit"]
    /\ TempsUnchanged

TempsNext ==
    \/ SaveUpload
    \/ SaveFieldCrop
    \/ \E ok \in BOOLEAN : OcrFieldCrop(ok)
    \/ RemoveFieldCrop
    \/ FinishFields
    \/ SaveMetadataCrop
    \/ \E ok \in BOOLEAN : OcrMetadataCrop(ok)
    \/ \E ok \in BOOLEAN : ClassifyImage(ok)
    \/ SaveNameCrop
    \/ \E ok \in BOOLEAN : OcrNameCrop(ok)
    \/ RemoveNameCrop
    \/ SaveQtyCrop
    \/ \E ok \in BOOLEAN : OcrQtyCrop(ok)
    \/ RemoveQtyCrop
    \/ CleanupMetadata
    \/ UnlinkUpload

SpecTemps == TempsInit /\ [][TempsNext]_vars

----------------------------------------------------------------------------
(* Properties of the temporary files *)

\* C29: every temporary file created while an image is processed (the endpoint's copy
\* of the upload, the name and quantity crops of a card box, the metadata crops) is
\* deleted on every exit path of the operation, also when an OCR call or a later
\* stage raises.
C29_NoTempFileLeft ==
    (temps # <<>> /\ temps.pc = "exit") => temps.files = {}

----------------------------------------------------------------------------
(* Properties of the chunks of process-batch-fast *)

\* the futures submitted to the executor and not finished
InFlight == { i \in 1..Len(futures) : futures[i].state # "done" }

\* the files the validation pass rejects
InvalidKinds == {"not_image", "read_error", "oversized"}

\* the positions, from 0, of the files of the chunk in the executor
IndexesInFlight == { futures[i].index : i \in 1..Len(futures) }

\* a result event or an error event of the file at position j was emitted
Reported(j) ==
    \E e \in 1..Len(events) : events[e].event \in {"result", "error"} /\ events[e].index = j

\* the validation pass reported the file at position j as failed, before any file
\* was announced as processing
ReportedInvalid(j) ==
    \E e \in 1..Len(events) :
        /\ events[e] = Event("error", j, "validation")
        /\ \A earlier \in 1..(e - 1) :
               events[earlier].detail # "processing" /\ events[earlier].event # "result"

\* C30: in process-batch-fast at most max_workers images are being processed at any
\* moment; the images of a chunk are submitted only after every image of the chunk
\* before has finished and its result or error event was emitted; invalid files are
\* reported during the validation pass and never submitted to a worker.
C30_ChunksOfMaxWorkers ==
    (request # <<>> /\ request.endpoint = "process-batch-fast") =>
        /\ Cardinality(InFlight) <= settings.max_workers
        /\ Cardinality(Running) <= settings.max_workers
        /\ futures # <<>> => idx = Len(request.files)
        /\ \A i \in 1..Len(futures) :
               /\ request.files[futures[i].index + 1] \notin InvalidKinds
               /\ \A j \in 0..(futures[i].index - 1) :
                      j \notin IndexesInFlight => Reported(j)
        /\ idx = Len(request.files) =>
               \A j \in 0..(Len(request.files) - 1) :
                   request.files[j + 1] \in InvalidKinds =>
                       (ReportedInvalid(j) /\ j \notin IndexesInFlight)

\* three files pass the validation with two workers: the third runs alone in the
\* second chunk, after the result and the error of the first chunk
C30_Witness ==
    /\ request # <<>>
    /\ request.endpoint = "process-batch-fast"
    /\ request.files = <<"valid", "failing", "valid">>
    /\ settings.max_workers = 2
    /\ Len(futures) = 1
    /\ futures[1] = [kind |-> "valid", index |-> 2, state |-> "running"]
    /\ Reported(0)
    /\ Reported(1)

\* an invalid file between two valid ones: both valid files run at once in the one
\* chunk, the invalid file is not among them
C30_InvalidNotSubmitted ==
    /\ request # <<>>
    /\ request.endpoint = "process-batch-fast"
    /\ request.files = <<"valid", "oversized", "valid">>
    /\ IndexesInFlight = {0, 2}
    /\ Running = {1, 2}
    /\ ReportedInvalid(1)

====
